---- MODULE Spec2Model ----
(***************************************************************************)
(* A model of md2word (src/src/md2word): the heading-numbering engine, the  *)
(* free-form numbering templates, and the conversion pipeline of convert(). *)
(*                                                                         *)
(* Text is modelled as a sequence of characters, each character a one-     *)
(* element token.  A non-ASCII character is written as its code point:     *)
(*   u7B2C = DI (ordinal prefix)   u7AE0 = ZHANG (chapter)                 *)
(*   u8282 = JIE (section)         u3001 = ideographic comma               *)
(*   uFF08, uFF09 = full-width parentheses                                 *)
(*   u96F6, u4E00, u4E8C, u4E09, u56DB, u4E94, u516D, u4E03, u516B, u4E5D,  *)
(*   u5341 = the Chinese numerals 0..10                                    *)
(*   u24EA = circled zero, u2460..u2473 = circled 1..20                    *)
(***************************************************************************)
EXTENDS Integers, Sequences, FiniteSets, TLC

VARIABLES
    counters,   \* HeadingNumbering.counters: a dict level -> count
    last,       \* the most recent call on the HeadingNumbering object and its outcome
    streak,     \* per level: numbering calls since construction, a reset of the
                \* level, or a numbering call at a shallower level
    template,   \* the free-form template configured as numbering format (template
                \* specification), else None
    pc,         \* where the conversion in flight stands inside convert()
    call,       \* the entry point and the arguments convert() was called with
    images,     \* the image references of the input, in order, as they stand in
                \* the markdown / HTML text at this point
    files,      \* the image directory: what the file of each name holds
    attempt,    \* document-tree builds tried by this conversion
    document,   \* document.paragraphs
    output,     \* what the output path holds
    raised,     \* the exception convert() ended with, "" if none
    previous,   \* the input and heading labels of the conversion before this one
    argument,   \* the argument of the function under study (function specifications)
    value       \* how far that function has come, and what it has produced

numVars == <<counters, last, streak, template>>
pipeVars == <<pc, call, images, files, attempt, document, output, raised, previous>>
fnVars == <<argument, value>>
vars == <<numVars, pipeVars, fnVars>>

\* ------------------------------------------------------------------ bounds

\* Heading levels used by the numbering specification.
MaxLevel == 2
\* A counter is not driven beyond this value in the numbering specification.
MaxCount == 2
\* Heading levels used by the label specification.
LabelLevels == 1
\* A counter is not driven beyond this value in the label specification; the
\* longest table of get_number has 26 entries.
LabelMax == 27
\* Every string over TemplateAlphabet up to this length is a template.
MaxTemplateLen == 3
\* Headings of an input of the pipeline specifications.
MaxHeadings == 2
\* Image references of an input of the image specification.
MaxImages == 2
\* The deepest TOC level asked of an entry point in the TOC specification.
MaxTocGiven == 10
\* The pieces the text of a code block is put together from.
MaxCodePieces == 3
\* The paragraphs of a document tree and the runs of a paragraph.
MaxParagraphs == 1
MaxRuns == 2
\* The rows of a table.
MaxRows == 3
\* The widest and the highest picture, and the widest the configuration allows.
MaxInches == 3
\* The pieces the text of a font size is put together from.
MaxSizePieces == 2
\* An int of more decimal digits than this is beyond every float
\* (sys.float_info.max is about 1.8 * 10^308).
FloatMaxDigits == 309
\* The pieces a text with formulas is put together from.
MaxFormulaPieces == 4
\* The blocks of an input of the HTML specification.
MaxBlocks == 2
\* The pieces a file text of the fence specification is put together from.
MaxPieces == 7

\* ------------------------------------------------------------ text helpers

RECURSIVE Digits(_)
\* str(n) for n >= 0
Digits(n) ==
    LET d == <<"0", "1", "2", "3", "4", "5", "6", "7", "8", "9">>
    IN  IF n < 10 THEN <<d[n + 1]>> ELSE Digits(n \div 10) \o <<d[(n % 10) + 1]>>

\* The first position j >= i of t holding a character of S, or 0.
FirstAt(t, i, S) ==
    IF \E j \in i..Len(t) : t[j] \in S
    THEN CHOOSE j \in i..Len(t) : t[j] \in S /\ \A k \in i..(j - 1) : t[k] \notin S
    ELSE 0

\* t[i..j] as a sequence (empty when j < i).
Slice(t, i, j) == IF j < i THEN <<>> ELSE SubSeq(t, i, j)

\* Python values: None and str for format_name, int and str for format arguments.
None == [none |-> TRUE, chars |-> <<>>]
Str(s) == [none |-> FALSE, chars |-> s]
IntVal(n) == [type |-> "int", chars |-> Digits(n)]
StrVal(s) == [type |-> "str", chars |-> s]

\* The outcome of a call: a return value or an exception.
Returned(s) == [exc |-> "", out |-> s]
Raised(e) == [exc |-> e, out |-> <<>>]

\* ------------------------------------------------------- str.format (Python)

RECURSIVE FieldEnd(_, _)
\* The position of the "}" that closes the replacement field whose name starts
\* at i; 0 when the field name is cut short (ValueError).
FieldEnd(t, i) ==
    IF i > Len(t) THEN 0
    ELSE IF t[i] = "{" THEN 0
    ELSE IF t[i] = "}" THEN i
    ELSE IF t[i] = "["
         THEN LET j == FirstAt(t, i + 1, {"]"})
              IN  IF j = 0 THEN 0 ELSE FieldEnd(t, j + 1)
    ELSE FieldEnd(t, i + 1)

RECURSIVE Access(_, _)
\* Apply the accessors r (".attr" and "[key]") of a field name to the value v.
Access(v, r) ==
    IF r = <<>> THEN Returned(v.chars)
    ELSE IF r[1] = "."
    THEN LET p == FirstAt(r, 2, {".", "["})
             attr == IF p = 0 THEN Slice(r, 2, Len(r)) ELSE Slice(r, 2, p - 1)
         IN  IF attr = <<>> THEN Raised("ValueError") ELSE Raised("AttributeError")
    ELSE LET p == FirstAt(r, 2, {"]"})
             key == Slice(r, 2, p - 1)
             rest == Slice(r, p + 1, Len(r))
         IN  IF p = 0 THEN Raised("ValueError")
             ELSE IF key = <<>> THEN Raised("ValueError")
             ELSE IF rest # <<>> /\ rest[1] \notin {".", "["} THEN Raised("ValueError")
             ELSE IF v.type = "int" THEN Raised("TypeError")
             ELSE IF \A k \in 1..Len(key) : key[k] = "0"
             THEN IF v.chars = <<>> THEN Raised("IndexError")
                  ELSE Access(StrVal(<<v.chars[1]>>), rest)
             ELSE Raised("TypeError")

\* The value of the replacement field f under the keyword arguments kw (no
\* positional argument is ever passed).
GetField(f, kw) ==
    LET p == FirstAt(f, 1, {".", "["})
        arg == IF p = 0 THEN f ELSE Slice(f, 1, p - 1)
        rest == IF p = 0 THEN <<>> ELSE Slice(f, p, Len(f))
    IN  IF \A k \in 1..Len(arg) : arg[k] = "0" THEN Raised("IndexError")
        ELSE IF arg \notin DOMAIN kw THEN Raised("KeyError")
        ELSE Access(kw[arg], rest)

RECURSIVE FormatFrom(_, _, _, _)
FormatFrom(t, i, kw, acc) ==
    IF i > Len(t) THEN Returned(acc)
    ELSE IF t[i] = "{"
    THEN IF i = Len(t) THEN Raised("ValueError")
         ELSE IF t[i + 1] = "{" THEN FormatFrom(t, i + 2, kw, acc \o <<"{">>)
         ELSE LET e == FieldEnd(t, i + 1)
                  v == GetField(Slice(t, i + 1, e - 1), kw)
              IN  IF e = 0 THEN Raised("ValueError")
                  ELSE IF v.exc # "" THEN v
                  ELSE FormatFrom(t, e + 1, kw, acc \o v.out)
    ELSE IF t[i] = "}"
    THEN IF i < Len(t) /\ t[i + 1] = "}" THEN FormatFrom(t, i + 2, kw, acc \o <<"}">>)
         ELSE Raised("ValueError")
    ELSE FormatFrom(t, i + 1, kw, acc \o <<t[i]>>)

\* template.format(**kw)
PyFormat(t, kw) == FormatFrom(t, 1, kw, <<>>)

\* -------------------------------------------------------- numbering tables

CHINESE_NUMBERS ==
    << <<"u96F6">>, <<"u4E00">>, <<"u4E8C">>, <<"u4E09">>, <<"u56DB">>, <<"u4E94">>,
       <<"u516D">>, <<"u4E03">>, <<"u516B">>, <<"u4E5D">>, <<"u5341">>,
       <<"u5341", "u4E00">>, <<"u5341", "u4E8C">>, <<"u5341", "u4E09">>,
       <<"u5341", "u56DB">>, <<"u5341", "u4E94">>, <<"u5341", "u516D">>,
       <<"u5341", "u4E03">>, <<"u5341", "u516B">>, <<"u5341", "u4E5D">>,
       <<"u4E8C", "u5341">> >>

\* Mutant: the table is taken to end at 19.
number_to_chinese_below_20(n) == IF n < 20 THEN CHINESE_NUMBERS[n + 1] ELSE Digits(n)

number_to_chinese(n) == IF n <= 20 THEN CHINESE_NUMBERS[n + 1] ELSE Digits(n)

ROMAN_NUMERALS ==
    << <<>>, <<"I">>, <<"I", "I">>, <<"I", "I", "I">>, <<"I", "V">>, <<"V">>,
       <<"V", "I">>, <<"V", "I", "I">>, <<"V", "I", "I", "I">>, <<"I", "X">>, <<"X">>,
       <<"X", "I">>, <<"X", "I", "I">>, <<"X", "I", "I", "I">>, <<"X", "I", "V">>,
       <<"X", "V">>, <<"X", "V", "I">>, <<"X", "V", "I", "I">>,
       <<"X", "V", "I", "I", "I">>, <<"X", "I", "X">>, <<"X", "X">> >>

CIRCLE_NUMBERS ==
    << "u24EA", "u2460", "u2461", "u2462", "u2463", "u2464", "u2465", "u2466",
       "u2467", "u2468", "u2469", "u246A", "u246B", "u246C", "u246D", "u246E",
       "u246F", "u2470", "u2471", "u2472", "u2473" >>

\* The names of the numbering formats.
chapter == <<"c", "h", "a", "p", "t", "e", "r">>
section == <<"s", "e", "c", "t", "i", "o", "n">>
chinese == <<"c", "h", "i", "n", "e", "s", "e">>
chinese_paren == chinese \o <<"_", "p", "a", "r", "e", "n">>
arabic == <<"a", "r", "a", "b", "i", "c">>
arabic_paren == arabic \o <<"_", "p", "a", "r", "e", "n">>
arabic_bracket == arabic \o <<"_", "b", "r", "a", "c", "k", "e", "t">>
roman == <<"r", "o", "m", "a", "n">>
roman_lower == roman \o <<"_", "l", "o", "w", "e", "r">>
letter == <<"l", "e", "t", "t", "e", "r">>
letter_lower == letter \o <<"_", "l", "o", "w", "e", "r">>
circle == <<"c", "i", "r", "c", "l", "e">>
none == <<"n", "o", "n", "e">>

\* HeadingNumbering.FORMATS, for the names get_number looks up in it.
FORMATS(name) ==
    CASE name = chapter -> <<"u7B2C", "{", "n", "}", "u7AE0">>
      [] name = section -> <<"u7B2C", "{", "n", "}", "u8282">>
      [] name = chinese -> <<"{", "n", "}", "u3001">>
      [] name = chinese_paren -> <<"uFF08", "{", "n", "}", "uFF09">>
      [] name = arabic -> <<"{", "n", "}", ".">>
      [] name = arabic_paren -> <<"(", "{", "n", "}", ")">>
      [] name = arabic_bracket -> <<"[", "{", "n", "}", "]">>

\* str.lower() on the characters of a Roman numeral.
Lower(s) ==
    [k \in 1..Len(s) |-> CASE s[k] = "I" -> "i" [] s[k] = "V" -> "v"
                           [] s[k] = "X" -> "x" [] OTHER -> s[k]]

\* chr(code) for the codes of the Latin letters.
chr(code) ==
    LET upper == <<"A", "B", "C", "D", "E", "F", "G", "H", "I", "J", "K", "L", "M",
                   "N", "O", "P", "Q", "R", "S", "T", "U", "V", "W", "X", "Y", "Z">>
        lower == <<"a", "b", "c", "d", "e", "f", "g", "h", "i", "j", "k", "l", "m",
                   "n", "o", "p", "q", "r", "s", "t", "u", "v", "w", "x", "y", "z">>
    IN  IF code >= 97 THEN lower[code - 96] ELSE upper[code - 64]

\* ord("A") and ord("a")
ord(ch) == IF ch = "A" THEN 65 ELSE 97

\* ------------------------------------------------------- HeadingNumbering

\* self.counters = {}
NewCounters == <<>>

\* The count of a level, 0 for a level the dict has no key for.
Counter(c, lvl) == IF lvl \in DOMAIN c THEN c[lvl] ELSE 0

\* The argument of reset: None or a level.
NoLevel == [none |-> TRUE, value |-> 0]
Level(l) == [none |-> FALSE, value |-> l]

\* reset(level): the counters after the call.
reset(c, level) ==
    IF level.none THEN NewCounters
    ELSE [lvl \in DOMAIN c |-> IF lvl >= level.value THEN 0 ELSE c[lvl]]

\* The loop of get_number over the existing keys: which levels are set to zero.
ResetsBelow(lvl, level) == lvl > level

\* The counters after get_number has counted a heading at level.
Increment(c, level) ==
    LET c1 == [lvl \in DOMAIN c \cup {level} |-> IF lvl = level THEN Counter(c, level) + 1
                                                   ELSE c[lvl]]
    IN  [lvl \in DOMAIN c1 |-> IF ResetsBelow(lvl, level) THEN 0 ELSE c1[lvl]]

\* The label get_number renders for the count n.
Render(format_name, n) ==
    IF format_name \in {chapter, section}
    THEN PyFormat(FORMATS(format_name), (<<"n">> :> StrVal(number_to_chinese(n))))
    ELSE IF format_name \in {chinese, chinese_paren}
    THEN PyFormat(FORMATS(format_name), (<<"n">> :> StrVal(number_to_chinese(n))))
    ELSE IF format_name \in {arabic, arabic_paren, arabic_bracket}
    THEN PyFormat(FORMATS(format_name), (<<"n">> :> IntVal(n)))
    ELSE IF format_name = roman
    THEN Returned((IF n <= 20 THEN ROMAN_NUMERALS[n + 1] ELSE Digits(n)) \o <<".">>)
    ELSE IF format_name = roman_lower
    THEN Returned((IF n <= 20 THEN Lower(ROMAN_NUMERALS[n + 1]) ELSE Digits(n)) \o <<".">>)
    ELSE IF format_name = letter
    THEN Returned((IF n <= 26 THEN <<chr(ord("A") + n - 1)>> ELSE Digits(n)) \o <<".">>)
    ELSE IF format_name = letter_lower
    THEN Returned((IF n <= 26 THEN <<chr(ord("a") + n - 1)>> ELSE Digits(n)) \o <<".">>)
    ELSE IF format_name = circle
    THEN Returned(IF n <= 20 THEN <<CIRCLE_NUMBERS[n + 1]>>
                  ELSE <<"(">> \o Digits(n) \o <<")">>)
    ELSE LET r == PyFormat(format_name,
                           (<<"n">> :> IntVal(n)) @@
                           (<<"c", "n">> :> StrVal(number_to_chinese(n))))
         IN  IF r.exc \in {"KeyError", "ValueError"}
             THEN Returned(Digits(n) \o <<".", " ">>)
             ELSE r

\* Mutant: the heading is counted before format_name is looked at.
get_number_counting_none(c, level, format_name) ==
    IF format_name.none \/ format_name.chars = <<>> \/ format_name.chars = none
    THEN [counters |-> Increment(c, level), exc |-> "", out |-> <<>>]
    ELSE LET c2 == Increment(c, level)
             r == Render(format_name.chars, c2[level])
         IN  [counters |-> c2, exc |-> r.exc, out |-> r.out]

\* get_number(level, format_name): the counters after the call and its outcome.
get_number(c, level, format_name) ==
    IF format_name.none \/ format_name.chars = <<>> \/ format_name.chars = none
    THEN [counters |-> c, exc |-> "", out |-> <<>>]
    ELSE LET c2 == Increment(c, level)
             r == Render(format_name.chars, c2[level])
         IN  [counters |-> c2, exc |-> r.exc, out |-> r.out]

\* ------------------------------------------------- the state of convert()

\* Config(): no style is configured, get_style returns a StyleConfig whose
\* numbering_format is None for every heading level.
Config == [level \in 1..MaxLevel |-> None]

\* The file names process_image_content derives for downloaded images.
FileNames == {"p", "q"}

\* The image directory (config.image_local_dir) with nothing in it.
NoFiles == [f \in FileNames |-> "none"]

\* No call of convert() at all.
NoCall == [entry |-> "", outline |-> <<>>, config |-> Config, toc |-> FALSE,
           toc_max_level |-> 0, before |-> "absent"]

\* No conversion before this one.
NoPrevious == [converted |-> FALSE, outline |-> <<>>, config |-> Config, labels |-> <<>>]

\* No function is under study.
NoFunction == argument = <<>> /\ value = [at |-> "", val |-> <<>>]

\* No conversion is in flight and none has run in this process.
NoConversion ==
    /\ pc = "idle"
    /\ call = NoCall
    /\ images = <<>>
    /\ files = NoFiles
    /\ attempt = 0
    /\ document = <<>>
    /\ output = "absent"
    /\ raised = ""
    /\ previous = NoPrevious

\* ---------------------------------------------- calls on one HeadingNumbering

\* format_name is None, empty or "none": get_number renders nothing for it.
IsNoneFormat(f) == f.none \/ f.chars = <<>> \/ f.chars = none

\* The templates of the converter's tests ("Part {n}", a {cn} template), one
\* with an unknown field and one with a positional field.
SampleTemplates ==
    { <<"P", "{", "n", "}">>, <<"{", "c", "n", "}", "P">>, <<"{", "x", "}">>, <<"{", "}">> }

NamedFormats ==
    { chapter, section, chinese, chinese_paren, arabic, arabic_paren, arabic_bracket,
      roman, roman_lower, letter, letter_lower, circle }

\* The format_name arguments of the numbering specification.
Formats == {None, Str(<<>>), Str(none)} \cup {Str(s) : s \in NamedFormats \cup SampleTemplates}

TemplateAlphabet == {"P", "{", "}", "n", "c", "x", "0", ".", "[", "]"}

\* Every short string over the alphabet, and longer ones with attribute and
\* index access on a field.
Templates ==
    (UNION {[1..k -> TemplateAlphabet] : k \in 1..MaxTemplateLen})
    \cup SampleTemplates
    \cup { <<"{", "n", ".", "x", "}">>, <<"{", "n", "[", "0", "]", "}">>,
           <<"{", "c", "n", "[", "0", "]", "}">>, <<"{", "c", "n", ".", "x", "}">> }

InitNumbering(levels, templates) ==
    /\ template \in templates
    /\ counters = NewCounters
    /\ last = [op |-> "init", level |-> 0, noLevel |-> FALSE, fmt |-> None, exc |-> "",
               out |-> <<>>, before |-> 0, cleared |-> {}, changed |-> FALSE]
    /\ streak = [l \in levels |-> 0]
    /\ NoConversion
    /\ NoFunction

\* One call numbering.get_number(level, f).  last.before is the count of the
\* level before the call, last.cleared the deeper levels whose non-zero count
\* the call set to zero, last.changed whether any count changed.
GetNumberCall(levels, cap, fmts) ==
    \E level \in levels, f \in fmts :
        /\ Counter(counters, level) < cap
        /\ UNCHANGED <<template, pipeVars, fnVars>>
        /\ LET r == get_number(counters, level, f)
           IN  /\ counters' = r.counters
               /\ last' = [op |-> "get", level |-> level, noLevel |-> FALSE, fmt |-> f,
                           exc |-> r.exc, out |-> r.out,
                           before |-> Counter(counters, level),
                           cleared |-> {l \in levels : l > level /\ Counter(counters, l) > 0
                                                      /\ Counter(r.counters, l) = 0},
                           changed |-> \E l \in levels :
                                           Counter(r.counters, l) # Counter(counters, l)]
               /\ streak' = IF IsNoneFormat(f) THEN streak
                            ELSE [l \in levels |-> IF l = level THEN streak[l] + 1
                                                   ELSE IF l > level THEN 0 ELSE streak[l]]

\* One call numbering.reset(level), level None or a heading level.
ResetCall(levels) ==
    \E level \in {NoLevel} \cup {Level(l) : l \in levels} :
        /\ counters' = reset(counters, level)
        /\ UNCHANGED <<template, pipeVars, fnVars>>
        /\ last' = [op |-> "reset", level |-> level.value, noLevel |-> level.none,
                    fmt |-> None, exc |-> "", out |-> <<>>, before |-> 0,
                    cleared |-> {l \in levels : Counter(counters, l) > 0
                                               /\ Counter(reset(counters, level), l) = 0},
                    changed |-> \E l \in levels :
                                    Counter(reset(counters, level), l) # Counter(counters, l)]
        /\ streak' = [l \in levels |-> IF level.none \/ l >= level.value THEN 0
                                       ELSE streak[l]]

\* Any sequence of get_number and reset calls on one HeadingNumbering.
InitNum == InitNumbering(1..MaxLevel, {None})
NextNum == GetNumberCall(1..MaxLevel, MaxCount, Formats) \/ ResetCall(1..MaxLevel)
SpecNum == InitNum /\ [][NextNum]_vars

\* Named formats only, counted past the longest table.
InitLabels == InitNumbering(1..LabelLevels, {None})
NextLabels ==
    \/ GetNumberCall(1..LabelLevels, LabelMax, {Str(s) : s \in NamedFormats})
    \/ ResetCall(1..LabelLevels)
SpecLabels == InitLabels /\ [][NextLabels]_vars

\* A free-form template configured as the numbering format of the headings.
InitTemplate == InitNumbering(1..LabelLevels, {Str(t) : t \in Templates \ (NamedFormats \cup {none})})
NextTemplate ==
    \/ GetNumberCall(1..LabelLevels, MaxCount, {template})
    \/ ResetCall(1..LabelLevels)
SpecTemplate == InitTemplate /\ [][NextTemplate]_vars

\* --------------------------------------------------------- image references

\* An image reference ![alt](src) of the input.  kind is what src is: a remote
\* URL, a data URI or a local path.  health is what the environment makes of
\* the image behind it:
\*   "ok"            it resolves and the document builder embeds it;
\*   "unavailable"   it cannot be fetched, decoded, read or opened as an image;
\*   "unrecognized"  it resolves to a PNG or JPEG file that python-docx does
\*                   not recognize;
\*   "rejected"      it resolves to a file that the probe of
\*                   is_docx_image_supported accepts and the builder rejects.
\* file is the name process_image_content gives the local copy of a remote
\* image: the stem of the URL's last segment plus the target format; a data
\* URI is stored under a fresh uuid name and a local PNG or JPEG is used in
\* place, which is file = "".
\* tag tells whether an image element still stands for the reference; when it
\* does not, text is what was put in its place.
Reference(kind, file, alt, health) ==
    [kind |-> kind, file |-> file, alt |-> alt, health |-> health,
     tag |-> TRUE, text |-> <<>>]

Healths == {"ok", "unavailable", "unrecognized", "rejected"}
\* No alt text, or the alt text "a".
AltTexts == {<<>>, <<"a">>}

\* Every image reference: a remote URL ending in one of the file names, a data
\* URI or a local path.
References ==
    {Reference("remote", f, a, h) : f \in FileNames, a \in AltTexts, h \in Healths}
    \cup {Reference(k, "", a, h) : k \in {"data", "local"}, a \in AltTexts, h \in Healths}

\* The reference with text in its place.
ReplacedBy(img, text) == [img EXCEPT !.tag = FALSE, !.text = text]
\* The reference pointing at the local file it was resolved to.
LocalPath(img) == [img EXCEPT !.kind = "local"]

\* What the local file of a resolved reference holds.
Content(img, store) == IF img.file \in FileNames THEN store[img.file] ELSE img.health

\* process_image_content(image_content, url): the image directory after the
\* image was written under the name derived from url.
process_image_content(img, store) == [store EXCEPT ![img.file] = img.health]

\* download_image(url) returns a local path (TRUE) or None (FALSE): every
\* failure of the request or of process_image_content is caught.
download_image(img) == img.health # "unavailable"
\* decode_data_uri_image(data_uri) returns a local path or None.
decode_data_uri_image(img) == img.health # "unavailable"
\* ensure_local_image_compatible(image_path) returns a path or None.
ensure_local_image_compatible(img, store) == Content(img, store) # "unavailable"

RECURSIVE MarkdownImagesFrom(_, _, _)
\* re.sub of process_markdown_images from reference i on, left to right: a
\* remote reference is downloaded and points at the local copy, or its alt
\* text takes its place; other references are left.
MarkdownImagesFrom(imgs, store, i) ==
    IF i > Len(imgs) THEN [images |-> imgs, files |-> store]
    ELSE IF imgs[i].tag /\ imgs[i].kind = "remote"
    THEN IF download_image(imgs[i])
         THEN MarkdownImagesFrom([imgs EXCEPT ![i] = LocalPath(imgs[i])],
                                 process_image_content(imgs[i], store), i + 1)
         ELSE MarkdownImagesFrom([imgs EXCEPT ![i] = ReplacedBy(imgs[i], imgs[i].alt)],
                                 store, i + 1)
    ELSE MarkdownImagesFrom(imgs, store, i + 1)

process_markdown_images(imgs, store) == MarkdownImagesFrom(imgs, store, 1)

\* sanitize_html_images: every image element is resolved by the kind of its src
\* or replaced by its alt text.  The remote references of the Markdown text
\* were resolved before; the local copy of a data URI has a name of its own.
sanitize_html_images(imgs, store) ==
    [i \in DOMAIN imgs |->
        IF ~imgs[i].tag THEN imgs[i]
        ELSE IF imgs[i].kind = "remote"
        THEN IF download_image(imgs[i]) THEN LocalPath(imgs[i])
             ELSE ReplacedBy(imgs[i], imgs[i].alt)
        ELSE IF imgs[i].kind = "data"
        THEN IF decode_data_uri_image(imgs[i]) THEN LocalPath(imgs[i])
             ELSE ReplacedBy(imgs[i], imgs[i].alt)
        ELSE IF ensure_local_image_compatible(imgs[i], store) THEN LocalPath(imgs[i])
             ELSE ReplacedBy(imgs[i], imgs[i].alt)]

\* is_docx_image_supported(image_path): the probe insertion into a test document.
is_docx_image_supported(img, store) == Content(img, store) \in {"ok", "rejected"}

\* filter_unrecognized_images: the first retry's HTML.
filter_unrecognized_images(imgs, store) ==
    [i \in DOMAIN imgs |->
        IF ~imgs[i].tag THEN imgs[i]
        ELSE IF imgs[i].kind \in {"remote", "data"} THEN ReplacedBy(imgs[i], imgs[i].alt)
        ELSE IF ~is_docx_image_supported(imgs[i], store) THEN ReplacedBy(imgs[i], imgs[i].alt)
        ELSE imgs[i]]

\* re.sub(r"<img[^>]*>", "", html_filtered): the second retry's HTML.
html_without_images(imgs) ==
    [i \in DOMAIN imgs |-> IF imgs[i].tag THEN ReplacedBy(imgs[i], <<>>) ELSE imgs[i]]

\* add_html_to_document raises UnrecognizedImageError: python-docx does not
\* recognize the file of an image the HTML embeds.
UnrecognizedImageError(imgs, store) ==
    \E i \in DOMAIN imgs :
        imgs[i].tag /\ Content(imgs[i], store) \in {"unrecognized", "rejected"}

\* ------------------------------------------------------------- the document

\* A paragraph of document.paragraphs.  text is the number label in front of a
\* heading's own text, or the text that replaced an image; max_level is the
\* deepest heading level named by a TOC field instruction.
Paragraph(kind, level, text, max_level) ==
    [kind |-> kind, level |-> level, text |-> text, max_level |-> max_level]

IsHeading(p) == p.kind = "heading"

\* The paragraphs HtmlToDocx().add_html_to_document makes of the HTML: the
\* headings of the outline (each with a run of text), then one paragraph for
\* every image reference, holding the picture or the text in its place.
add_html_to_document(outline, imgs) ==
    [i \in 1..Len(outline) |-> Paragraph("heading", outline[i], <<>>, 0)]
    \o [i \in 1..Len(imgs) |-> IF imgs[i].tag THEN Paragraph("picture", 0, <<>>, 0)
                                ELSE Paragraph("body", 0, imgs[i].text, 0)]

\* DEFAULT_CONFIG: chapter, section and chinese numbering for heading_1..3.
DEFAULT_CONFIG ==
    [level \in 1..MaxLevel |-> IF level = 1 THEN Str(chapter)
                               ELSE IF level = 2 THEN Str(section)
                               ELSE IF level = 3 THEN Str(chinese) ELSE None]

\* A configuration with "none" for heading_1, lower-case letters for heading_2
\* and Arabic numbers below.
LetterConfig ==
    [level \in 1..MaxLevel |-> IF level = 1 THEN Str(none)
                               ELSE IF level = 2 THEN Str(letter_lower) ELSE Str(arabic)]

\* A configuration whose heading_1 template has a positional field.
PositionalConfig ==
    [level \in 1..MaxLevel |-> IF level = 1 THEN Str(<<"{", "}">>) ELSE None]

\* Mutant: the numbering object of the conversion before is used again.
HeadingNumberingKept(residual) == residual

\* numbering = HeadingNumbering(): the counters apply_styles_to_document starts
\* from, whatever the numbering object of the conversion before holds.
HeadingNumbering(residual) == NewCounters

RECURSIVE StyleFrom(_, _, _, _)
\* The paragraph loop of apply_styles_to_document from paragraph i on: the
\* numbering counters at the end, the paragraphs with their number labels, and
\* the exception of a get_number call that raised.
StyleFrom(numbering, paras, config, i) ==
    IF i > Len(paras)
    THEN [counters |-> numbering, paragraphs |-> paras, exc |-> ""]
    ELSE IF ~IsHeading(paras[i])
    THEN StyleFrom(numbering, paras, config, i + 1)
    ELSE LET numbering_format == config[paras[i].level]
         IN  IF numbering_format.none \/ numbering_format.chars = <<>>
             THEN StyleFrom(numbering, paras, config, i + 1)
             ELSE LET r == get_number(numbering, paras[i].level, numbering_format)
                  IN  IF r.exc # ""
                      THEN [counters |-> r.counters, paragraphs |-> paras, exc |-> r.exc]
                      ELSE StyleFrom(r.counters,
                                     [paras EXCEPT ![i].text = r.out \o @], config, i + 1)

apply_styles_to_document(residual, paras, config) ==
    StyleFrom(HeadingNumbering(residual), paras, config, 1)

\* Mutant: the new paragraph takes the place of the paragraph at position i.
paragraph_replaced(paras, i, p) ==
    Slice(paras, 1, i - 1) \o <<p>> \o Slice(paras, i + 1, Len(paras))

\* paragraph.insert_paragraph_before: p goes in front of the paragraph at
\* position i.
insert_paragraph_before(paras, i, p) ==
    Slice(paras, 1, i - 1) \o <<p>> \o Slice(paras, i, Len(paras))

\* add_toc: toc_title goes in front of the first paragraph; the field paragraph
\* and then the page-break paragraph each go in front of toc_title.
add_toc(paras, max_level) ==
    LET with_title == insert_paragraph_before(paras, 1, Paragraph("toc_title", 1, <<>>, 0))
        toc_title == 1
        with_field == insert_paragraph_before(with_title, toc_title,
                                              Paragraph("toc_field", 0, <<>>, max_level))
        toc_title_now == toc_title + 1
    IN  insert_paragraph_before(with_field, toc_title_now, Paragraph("page_break", 0, <<>>, 0))

\* ---------------------------------------------------------- the entry points

Min(a, b) == IF a < b THEN a ELSE b
Max(a, b) == IF a > b THEN a ELSE b

\* The deepest TOC level of the demo server, and the default of all entry points.
MaxTocLevel == 9
DefaultTocLevel == 3

\* The toc_max_level with which each entry point reaches convert(), given the
\* value it received: main() hands --toc-level to convert_file, convert_file
\* hands toc_max_level to convert, and do_POST of the demo server clamps.
convert_file(toc_max_level) == toc_max_level
main(toc_level) == convert_file(toc_level)
do_POST(toc_level) == Max(1, Min(MaxTocLevel, toc_level))

EntryPoints == {"convert", "convert_file", "main", "do_POST"}

PassedTocLevel(entry, given) ==
    IF entry = "do_POST" THEN do_POST(given)
    ELSE IF entry = "main" THEN main(given)
    ELSE IF entry = "convert_file" THEN convert_file(given)
    ELSE given

\* ------------------------------------------------------------- convert()

\* A call through an entry point: the arguments are bound, nothing else has
\* happened.  The input is an outline of headings followed by image references;
\* the image directory of the call's configuration is empty.
Convert(entries, outlines, configs, imageLists, tocs, tocLevels) ==
    /\ pc = "idle"
    /\ \E entry \in entries, outline \in outlines, config \in configs,
          imgs \in imageLists, toc \in tocs, given \in tocLevels :
           /\ call' = [entry |-> entry, outline |-> outline, config |-> config,
                       toc |-> toc, toc_max_level |-> PassedTocLevel(entry, given),
                       before |-> output]
           /\ images' = imgs
    /\ files' = NoFiles
    /\ pc' = "markdown_images"
    /\ UNCHANGED <<attempt, document, output, raised, previous, numVars, fnVars>>

\* processed_content = process_markdown_images(processed_content, config)
ResolveMarkdownImages ==
    /\ pc = "markdown_images"
    /\ LET r == process_markdown_images(images, files)
       IN  images' = r.images /\ files' = r.files
    /\ pc' = "html_images"
    /\ UNCHANGED <<call, attempt, document, output, raised, previous, numVars, fnVars>>

\* html_content = sanitize_html_images(html_content, config)
SanitizeHtmlImages ==
    /\ pc = "html_images"
    /\ images' = sanitize_html_images(images, files)
    /\ pc' = "build"
    /\ UNCHANGED <<call, files, attempt, document, output, raised, previous, numVars, fnVars>>

\* The build of the document tree with its two retries.  The builder may also
\* fail for a reason that is no UnrecognizedImageError (fault); no handler of
\* convert() catches that, at whichever attempt it happens.
BuildDocumentTree ==
    /\ pc = "build"
    /\ LET html_filtered == filter_unrecognized_images(images, files)
           tries == IF ~UnrecognizedImageError(images, files) THEN 1
                    ELSE IF ~UnrecognizedImageError(html_filtered, files) THEN 2 ELSE 3
           html == IF tries = 1 THEN images
                   ELSE IF tries = 2 THEN html_filtered
                   ELSE html_without_images(html_filtered)
       IN  /\ attempt' = tries
           /\ images' = html
           /\ \E fault \in BOOLEAN :
                IF fault \/ UnrecognizedImageError(html, files)
                THEN /\ pc' = "raised"
                     /\ raised' = IF fault THEN "BuildError" ELSE "UnrecognizedImageError"
                     /\ UNCHANGED document
                ELSE /\ pc' = "styles"
                     /\ document' = add_html_to_document(call.outline, html)
                     /\ UNCHANGED raised
    /\ UNCHANGED <<call, files, output, previous, numVars, fnVars>>

\* apply_styles_to_document(document, config); counters is the numbering object
\* the call leaves behind.
ApplyStyles ==
    /\ pc = "styles"
    /\ LET r == apply_styles_to_document(counters, document, call.config)
       IN  /\ counters' = r.counters
           /\ IF r.exc # ""
              THEN /\ pc' = "raised"
                   /\ raised' = r.exc
                   /\ UNCHANGED document
              ELSE /\ pc' = "toc"
                   /\ document' = r.paragraphs
                   /\ UNCHANGED raised
    /\ UNCHANGED <<call, images, files, attempt, output, previous, last, streak, template, fnVars>>

\* if toc and len(document.paragraphs) > 0: add_toc(document, ..., toc_max_level)
InsertTOC ==
    /\ pc = "toc"
    /\ document' = IF call.toc /\ Len(document) > 0
                   THEN add_toc(document, call.toc_max_level)
                   ELSE document
    /\ pc' = "persist"
    /\ UNCHANGED <<call, images, files, attempt, output, raised, previous, numVars, fnVars>>

\* output_path.parent.mkdir(...); document.save(str(output_path)).  The save
\* writes into the output path itself: it ends well, or mkdir fails, or the
\* file cannot be opened for writing, or a write fails after the file was
\* opened and truncated.
Persist ==
    /\ pc = "persist"
    /\ \E outcome \in {"saved", "mkdir fails", "open fails", "write fails"} :
           /\ output' = IF outcome = "saved" THEN "document"
                        ELSE IF outcome = "write fails" THEN "partial"
                        ELSE output
           /\ pc' = IF outcome = "saved" THEN "returned" ELSE "raised"
           /\ raised' = IF outcome = "saved" THEN "" ELSE "OSError"
    /\ UNCHANGED <<call, images, files, attempt, document, previous, numVars, fnVars>>

\* The heading labels of the document, in order.
Labels(paras) ==
    LET headings == SelectSeq(paras, IsHeading)
    IN  [i \in 1..Len(headings) |-> headings[i].text]

\* convert() has returned or raised: its objects are gone, the output path and
\* the numbering object last created stay as they are.
Return ==
    /\ pc \in {"returned", "raised"}
    /\ previous' = IF pc = "returned" \/ raised = "OSError"
                   THEN [converted |-> TRUE, outline |-> call.outline,
                         config |-> call.config, labels |-> Labels(document)]
                   ELSE previous
    /\ pc' = "idle"
    /\ call' = NoCall
    /\ images' = <<>>
    /\ attempt' = 0
    /\ document' = <<>>
    /\ raised' = ""
    /\ UNCHANGED <<files, output, numVars, fnVars>>

\* The steps of convert() after the call.
Stages ==
    \/ ResolveMarkdownImages
    \/ SanitizeHtmlImages
    \/ BuildDocumentTree
    \/ ApplyStyles
    \/ InsertTOC
    \/ Persist
    \/ Return

\* A process that has converted nothing yet; the output path is free or holds
\* an earlier document.
InitConvert ==
    /\ template = None
    /\ counters = NewCounters
    /\ last = [op |-> "init", level |-> 0, noLevel |-> FALSE, fmt |-> None, exc |-> "",
               out |-> <<>>, before |-> 0, cleared |-> {}, changed |-> FALSE]
    /\ streak = [l \in 1..MaxLevel |-> 0]
    /\ pc = "idle"
    /\ call = NoCall
    /\ images = <<>>
    /\ files = NoFiles
    /\ attempt = 0
    /\ document = <<>>
    /\ output \in {"absent", "document"}
    /\ raised = ""
    /\ previous = NoPrevious
    /\ NoFunction

\* Every outline of at most MaxHeadings headings.
Outlines == UNION {[1..n -> 1..MaxLevel] : n \in 0..MaxHeadings}

\* Every list of at most MaxImages image references.
ImageLists ==
    UNION {[1..n -> References] : n \in 0..MaxImages}

\* Conversions of one heading and any images, through convert().
NextImages ==
    \/ Convert({"convert"}, {<<1>>}, {DEFAULT_CONFIG}, ImageLists, {FALSE}, {DefaultTocLevel})
    \/ Stages
SpecImages == InitConvert /\ [][NextImages]_vars

\* Conversions of every outline under every configuration, one after the other
\* in one process.
NextRuns ==
    \/ Convert({"convert"}, Outlines, {Config, DEFAULT_CONFIG, LetterConfig, PositionalConfig},
               {<<>>}, {FALSE}, {DefaultTocLevel})
    \/ Stages
SpecRuns == InitConvert /\ [][NextRuns]_vars

\* Conversions with and without a table of contents through every entry point,
\* for every requested depth from 0 to MaxTocGiven.
NextToc ==
    \/ Convert(EntryPoints, Outlines, {Config}, {<<>>}, BOOLEAN, 0..MaxTocGiven)
    \/ Stages
SpecToc == InitConvert /\ [][NextToc]_vars

\* Conversions of every outline, numbered (DEFAULT_CONFIG) or not (Config),
\* without an image or with one local image, with and without a table of
\* contents.
NextTocFrame ==
    \/ Convert({"convert"}, Outlines, {Config, DEFAULT_CONFIG},
               {<<>>, <<Reference("local", "", <<"a">>, "ok")>>}, BOOLEAN, {DefaultTocLevel})
    \/ Stages
SpecTocFrame == InitConvert /\ [][NextTocFrame]_vars

\* ------------------------------------------------- functions studied alone

\* The calls of function fn with an argument of args.
Calls(fn, args) == {[fn |-> fn, arg |-> a] : a \in args}

\* Function fn returns result.
Returns(fn, result) ==
    /\ value.at = "called"
    /\ argument.fn = fn
    /\ value' = [at |-> "returned", val |-> result]
    /\ UNCHANGED <<argument, numVars, pipeVars>>

\* Function fn has returned from the call in argument.
HasReturned(fn) == value.at = "returned" /\ argument.fn = fn

\* One call, of calls, has been made; no numbering object and no conversion of
\* the other specifications is involved.
InitCalls(calls) ==
    /\ template = None
    /\ counters = NewCounters
    /\ last = [op |-> "init", level |-> 0, noLevel |-> FALSE, fmt |-> None, exc |-> "",
               out |-> <<>>, before |-> 0, cleared |-> {}, changed |-> FALSE]
    /\ streak = [l \in 1..MaxLevel |-> 0]
    /\ NoConversion
    /\ argument \in calls
    /\ value = [at |-> "called", val |-> <<>>]

RECURSIVE Concat(_)
\* The pieces of a sequence of texts, one after the other.
Concat(pieces) == IF pieces = <<>> THEN <<>> ELSE Head(pieces) \o Concat(Tail(pieces))

\* The texts of at most n pieces.
TextsOf(pieces, n) == {Concat(ps) : ps \in UNION {[1..k -> pieces] : k \in 0..n}}

\* str.startswith and str.endswith
startswith(t, prefix) == Len(prefix) <= Len(t) /\ SubSeq(t, 1, Len(prefix)) = prefix
endswith(t, suffix) ==
    Len(suffix) <= Len(t) /\ SubSeq(t, Len(t) - Len(suffix) + 1, Len(t)) = suffix

\* t[start:-drop] for start >= 0 and drop > 0
SliceBetween(t, start, drop) == Slice(t, start + 1, Len(t) - drop)

RECURSIVE Replace(_, _, _)
\* str.replace: every occurrence of old, left to right, becomes new.
Replace(t, old, new) ==
    IF Len(t) < Len(old) THEN t
    ELSE IF SubSeq(t, 1, Len(old)) = old
         THEN new \o Replace(SubSeq(t, Len(old) + 1, Len(t)), old, new)
         ELSE <<Head(t)>> \o Replace(Tail(t), old, new)

RECURSIVE strip(_)
\* str.strip, of blanks and line ends
strip(t) ==
    IF t # <<>> /\ Head(t) \in {" ", "\n"} THEN strip(Tail(t))
    ELSE IF t # <<>> /\ t[Len(t)] \in {" ", "\n"} THEN strip(SubSeq(t, 1, Len(t) - 1))
    ELSE t

\* ------------------------------------- convert_file: the fence around a file

\* A fence of three backticks (U+0060).
Fence == <<"u0060", "u0060", "u0060">>
MarkdownFence == Fence \o <<"m", "a", "r", "k", "d", "o", "w", "n">>

\* The markdown_content convert_file hands to convert for the text of the file.
markdown_content(file_text) ==
    IF startswith(file_text, MarkdownFence) /\ endswith(file_text, Fence)
    THEN SliceBetween(file_text, 12, 3)
    ELSE file_text

\* File texts: up to MaxPieces pieces, each an opening fence, a fence, a line
\* end or the letter a.
FileTexts == TextsOf({MarkdownFence, Fence, <<"\n">>, <<"a">>}, MaxPieces)

\* convert_file reads the file and works out the text for convert.
ReadMarkdown == Returns("convert_file", markdown_content(argument.arg))

\* ------------------------------------------------ code blocks: their text

Amp == <<"&", "a", "m", "p", ";">>
Lt == <<"&", "l", "t", ";">>
Gt == <<"&", "g", "t", ";">>
Quot == <<"&", "q", "u", "o", "t", ";">>
Apos == <<"&", "#", "3", "9", ";">>

\* What markdown2 writes between <code> and </code> for the text of a fenced
\* block: &, < and > as entities, the last line ended.
code_html(source) ==
    Replace(Replace(Replace(source, <<"&">>, Amp), <<"<">>, Lt), <<">">>, Gt) \o <<"\n">>

\* save_code_block: the "code" entry kept for the block whose <code> element
\* holds inner.
save_code_block(inner) ==
    LET angles == Replace(Replace(Replace(inner, Lt, <<"<">>), Gt, <<">">>), Amp, <<"&">>)
        quotes == Replace(Replace(angles, Quot, <<"\"">>), Apos, <<"'">>)
    IN  strip(quotes)

\* The text of the code paragraph of the document for a block of the source:
\* add_code_block_to_document writes the kept text line by line, one run a
\* line and a line break between two runs.
code_paragraph(source) == save_code_block(code_html(source))

\* Texts of code blocks: up to MaxCodePieces pieces, each a character that has
\* an entity, the letter a, a blank, or the rest of an entity after its &.
CodeTexts ==
    TextsOf({ <<"&">>, <<"<">>, <<">">>, <<"\"">>, <<"'">>, <<"a">>, <<" ">>,
              Tail(Amp), Tail(Lt), Tail(Gt), Tail(Quot), Tail(Apos) }, MaxCodePieces)

\* The code block of the source text becomes a paragraph of the document.
ExtractCode == Returns("extract_code_blocks", code_paragraph(argument.arg))

\* ------------------------------------------------ styling the document tree

\* A StyleConfig, as far as the font of a run goes.
StyleConfig(font_name, font_size, bold, italic, color) ==
    [font_name |-> font_name, font_size |-> font_size, bold |-> bold, italic |-> italic,
     color |-> color]

\* The styles DEFAULT_CONFIG gives to body, blockquote and heading_1.
SampleStyles ==
    { StyleConfig("u4EFFu5B8B", 11, FALSE, FALSE, "000000"),
      StyleConfig("u4EFFu5B8B", 11, FALSE, TRUE, "666666"),
      StyleConfig("u9ED1u4F53", 16, TRUE, FALSE, "000000") }

\* A TableConfig, as far as width and fills go; "" and 0 stand for None.
TableConfig(width_mode, width_inches, header, cell, alternating) ==
    [width_mode |-> width_mode, width_inches |-> width_inches,
     header_background_color |-> header, cell_background_color |-> cell,
     alternating_row_color |-> alternating]

\* A run as the generic conversion leaves it: no font of its own.
Run(text, bold, italic) ==
    [text |-> text, font_name |-> "", font_size |-> 0, bold |-> bold, italic |-> italic,
     color |-> "", shd |-> ""]

\* paragraph.text
ParagraphText(paragraph) ==
    Concat([k \in 1..Len(paragraph.runs) |-> paragraph.runs[k].text])

\* The marker pair mark_inline_code puts around inline code, one token each.
CodeOpen == "u27E6CODEu27E7"
CodeClose == "u27E6/CODEu27E7"

BlockquotePlaceholder(idx) == <<"__BLOCKQUOTE_PLACEHOLDER_">> \o Digits(idx) \o <<"__">>

apply_style_to_run(run, style_config) ==
    [run EXCEPT !.font_name = style_config.font_name,
                !.font_size = style_config.font_size,
                !.bold = run.bold \/ style_config.bold,
                !.italic = run.italic \/ style_config.italic,
                !.color = style_config.color]

\* replace_blockquote_placeholders: in every paragraph whose text is the
\* placeholder of a quote, the first such quote takes its place as one run in
\* the blockquote style, and the paragraph gets a left border.
replace_blockquote_placeholders(paragraphs, blockquotes, config) ==
    LET style_config == config.styles.blockquote
        hits(p) == {idx \in 0..(Len(blockquotes) - 1) :
                       strip(ParagraphText(p)) = BlockquotePlaceholder(idx)}
        first(p) == CHOOSE i \in hits(p) : \A j \in hits(p) : i <= j
        run(p) == [text |-> blockquotes[first(p) + 1],
                   font_name |-> style_config.font_name,
                   font_size |-> style_config.font_size,
                   bold |-> style_config.bold,
                   italic |-> style_config.italic,
                   color |-> style_config.color,
                   shd |-> ""]
    IN  IF blockquotes = <<>> THEN paragraphs
        ELSE [k \in 1..Len(paragraphs) |->
                 IF hits(paragraphs[k]) = {} THEN paragraphs[k]
                 ELSE [runs |-> <<run(paragraphs[k])>>, border |-> style_config.color]]

\* The paragraph loop of apply_styles_to_document for paragraphs that are
\* neither headings nor code blocks: every run gets the body style.
StyleParagraphs(paragraphs, config) ==
    [k \in 1..Len(paragraphs) |->
        [paragraphs[k] EXCEPT !.runs =
            [r \in 1..Len(paragraphs[k].runs) |->
                apply_style_to_run(paragraphs[k].runs[r], config.styles.body)]]]

RECURSIVE InlineRuns(_, _, _)
\* The runs the paragraph is rebuilt from, for the text from the end of the
\* last match on: text before the next marker pair, the code, and so on.
InlineRuns(text, body_style, code_style) ==
    LET AddedRun(t, style_config, fill) ==
            [text |-> t, font_name |-> style_config.font_name,
             font_size |-> style_config.font_size, bold |-> FALSE, italic |-> FALSE,
             color |-> "", shd |-> fill]
        opens == {i \in 1..Len(text) : text[i] = CodeOpen /\
                     \E j \in (i + 1)..Len(text) : text[j] = CodeClose}
    IN  IF opens = {}
        THEN IF text = <<>> THEN <<>> ELSE <<AddedRun(text, body_style, "")>>
        ELSE LET i == CHOOSE a \in opens : \A b \in opens : a <= b
                 j == CHOOSE a \in (i + 1)..Len(text) :
                          text[a] = CodeClose /\
                          \A b \in (i + 1)..(a - 1) : text[b] # CodeClose
                 before == IF i > 1 THEN <<AddedRun(SubSeq(text, 1, i - 1), body_style, "")>>
                           ELSE <<>>
                 code_run == AddedRun(SubSeq(text, i + 1, j - 1), code_style, "f5f5f5")
             IN  before \o <<code_run>>
                   \o InlineRuns(SubSeq(text, j + 1, Len(text)), body_style, code_style)

style_inline_code_in_document(paragraphs, config) ==
    [k \in 1..Len(paragraphs) |->
        LET full_text == ParagraphText(paragraphs[k])
            matches == \E i \in 1..Len(full_text) : full_text[i] = CodeOpen /\
                           \E j \in (i + 1)..Len(full_text) : full_text[j] = CodeClose
        IN  IF matches
            THEN [paragraphs[k] EXCEPT
                     !.runs = InlineRuns(full_text, config.styles.body, config.styles.code)]
            ELSE paragraphs[k]]

\* apply_table_styles striping the odd rows instead of the even ones.
apply_table_styles_odd_rows(table, config) ==
    LET table_config == config.table
        widths ==
            IF table_config.width_mode = "full"
            THEN Append(table.widths, [w |-> 5000, type |-> "pct"])
            ELSE IF table_config.width_mode = "fixed" /\ table_config.width_inches # 0
                 THEN Append(table.widths,
                             [w |-> table_config.width_inches * 1440, type |-> "dxa"])
                 ELSE table.widths
        styled(i, cell) ==
            LET style_config == IF i = 0 THEN config.styles.table_header
                                ELSE config.styles.table_cell
                fill == IF i = 0 /\ table_config.header_background_color # ""
                        THEN <<table_config.header_background_color>>
                        ELSE IF i > 0
                             THEN IF table_config.alternating_row_color # "" /\ i % 2 = 1
                                  THEN <<table_config.alternating_row_color>>
                                  ELSE IF table_config.cell_background_color # ""
                                       THEN <<table_config.cell_background_color>>
                                       ELSE <<>>
                             ELSE <<>>
            IN  [run |-> apply_style_to_run(cell.run, style_config),
                 fills |-> cell.fills \o fill]
    IN  [widths |-> widths,
         rows |-> [k \in 1..Len(table.rows) |-> styled(k - 1, table.rows[k])]]

\* apply_table_styles on one table: its width settings, and for every row the
\* style of its cells and the fills added to them.
apply_table_styles(table, config) ==
    LET table_config == config.table
        widths ==
            IF table_config.width_mode = "full"
            THEN Append(table.widths, [w |-> 5000, type |-> "pct"])
            ELSE IF table_config.width_mode = "fixed" /\ table_config.width_inches # 0
                 THEN Append(table.widths,
                             [w |-> table_config.width_inches * 1440, type |-> "dxa"])
                 ELSE table.widths
        styled(i, cell) ==
            LET style_config == IF i = 0 THEN config.styles.table_header
                                ELSE config.styles.table_cell
                fill == IF i = 0 /\ table_config.header_background_color # ""
                        THEN <<table_config.header_background_color>>
                        ELSE IF i > 0
                             THEN IF table_config.alternating_row_color # "" /\ i % 2 = 0
                                  THEN <<table_config.alternating_row_color>>
                                  ELSE IF table_config.cell_background_color # ""
                                       THEN <<table_config.cell_background_color>>
                                       ELSE <<>>
                             ELSE <<>>
            IN  [run |-> apply_style_to_run(cell.run, style_config),
                 fills |-> cell.fills \o fill]
    IN  [widths |-> widths,
         rows |-> [k \in 1..Len(table.rows) |-> styled(k - 1, table.rows[k])]]

\* resize_images_in_document leaving the height of a picture as it was.
resize_images_keeping_height(pictures, max_width) ==
    [k \in 1..Len(pictures) |->
        IF pictures[k].width > max_width
        THEN [pictures[k] EXCEPT !.width = max_width]
        ELSE pictures[k]]

\* resize_images_in_document on the pictures of the document; widths and
\* heights in the unit of length of the document.
resize_images_in_document(pictures, max_width) ==
    [k \in 1..Len(pictures) |->
        IF pictures[k].width > max_width
        THEN [width |-> max_width,
              height |-> (pictures[k].height * max_width) \div pictures[k].width]
        ELSE pictures[k]]

\* The document trees the generic conversion can leave, each with the
\* configuration and the block quotes convert keeps beside it: paragraphs of up
\* to MaxRuns runs (plain, bold or italic text, or inline code between its
\* markers) and placeholders of block quotes; or one table of up to MaxRows
\* rows, with or without a width setting of its own; or up to MaxImages
\* pictures.
Conversions ==
    LET Conversion(body, header, cell, quote, table_config, max_width, blockquotes,
                   paragraphs, tables, pictures) ==
            [config |->
                [styles |-> [body |-> body, blockquote |-> quote, table_header |-> header,
                             table_cell |-> cell,
                             code |-> StyleConfig("Consolas", 10, FALSE, FALSE, "000000")],
                 table |-> table_config,
                 max_image_width_inches |-> max_width],
             blockquotes |-> blockquotes,
             document |-> [paragraphs |-> paragraphs, tables |-> tables,
                           pictures |-> pictures]]
        plain == StyleConfig("u5FAEu8F6Fu96C5u9ED1", 11, FALSE, FALSE, "000000")
        auto == TableConfig("auto", 0, "", "", "")
        emphases == {<<FALSE, FALSE>>, <<TRUE, FALSE>>, <<FALSE, TRUE>>}
        GenericRuns == {Run(<<"a">>, e[1], e[2]) : e \in emphases}
                          \cup {Run(<<CodeOpen, "c", CodeClose>>, FALSE, FALSE)}
        QuoteTexts == {<<"q">>, <<"q", CodeOpen, "c", CodeClose>>}
        \* a paragraph is given by its runs; no runs stand for a block quote
        shapes == UNION {[1..n -> GenericRuns] : n \in 0..MaxRuns}
        index(doc, k) == Cardinality({j \in 1..(k - 1) : doc[j] = <<>>})
        tree(doc) == [k \in 1..Len(doc) |->
                         [runs |-> IF doc[k] = <<>>
                                   THEN <<Run(BlockquotePlaceholder(index(doc, k)),
                                              FALSE, FALSE)>>
                                   ELSE doc[k],
                          border |-> ""]]
        ParagraphCases ==
            UNION { { Conversion(body, plain, plain, quote, auto, 6, quoted, tree(doc),
                                 <<>>, <<>>) :
                        body \in SampleStyles, quote \in SampleStyles,
                        quoted \in [1..index(doc, Len(doc) + 1) -> QuoteTexts] } :
                    doc \in UNION {[1..n -> shapes] : n \in 0..MaxParagraphs} }
        table(widths, rows, e) ==
            [widths |-> widths,
             rows |-> [k \in 1..rows |-> [run |-> Run(<<"a">>, e[1], e[2]), fills |-> <<>>]]]
        TableCases ==
            { Conversion(plain, header, cell, plain,
                         TableConfig(mode, inches, h, c, a), 6, <<>>, <<>>,
                         <<table(widths, rows, e)>>, <<>>) :
                header \in SampleStyles, cell \in SampleStyles,
                mode \in {"auto", "full", "fixed"}, inches \in {0, 4},
                h \in {"", "D9E2F3"}, c \in {"", "FFFFFF"}, a \in {"", "F2F2F2"},
                widths \in {<<>>, <<[w |-> 0, type |-> "auto"]>>},
                rows \in 1..MaxRows, e \in emphases }
        Pictures == [width : 1..MaxInches, height : 1..MaxInches]
        PictureCases ==
            { Conversion(plain, plain, plain, plain, auto, max_width, <<>>, <<>>, <<>>,
                         pictures) :
                max_width \in 1..MaxInches,
                pictures \in UNION {[1..n -> Pictures] : n \in 0..MaxImages} }
    IN  ParagraphCases \cup TableCases \cup PictureCases

\* A stage of convert takes the document tree the stage before it left and
\* leaves tree(doc).
Stage(from, to, tree(_)) ==
    /\ argument.fn = "convert"
    /\ value.at = from
    /\ value' = [at |-> to,
                 val |-> tree(IF from = "called" THEN argument.arg.document ELSE value.val)]
    /\ UNCHANGED <<argument, numVars, pipeVars>>

ReinjectQuotes ==
    LET reinjected(doc) ==
            [doc EXCEPT !.paragraphs =
                replace_blockquote_placeholders(doc.paragraphs,
                                                argument.arg.blockquotes,
                                                argument.arg.config)]
    IN  Stage("called", "quotes", reinjected)

\* apply_styles_to_document: the paragraphs of the body, then the tables.
StyleTree ==
    LET styled(doc) ==
            [doc EXCEPT
                !.paragraphs = StyleParagraphs(doc.paragraphs, argument.arg.config),
                !.tables = [k \in 1..Len(doc.tables) |->
                               apply_table_styles(doc.tables[k], argument.arg.config)]]
    IN  Stage("quotes", "styles", styled)

StyleInlineCode ==
    LET restyled(doc) ==
            [doc EXCEPT !.paragraphs =
                style_inline_code_in_document(doc.paragraphs, argument.arg.config)]
    IN  Stage("styles", "inline", restyled)

\* The last stage that changes the tree that is not the table of contents;
\* the tree it leaves is the one saved.
ResizeImages ==
    LET resized(doc) ==
            [doc EXCEPT !.pictures =
                resize_images_in_document(doc.pictures,
                                          argument.arg.config.max_image_width_inches)]
    IN  Stage("inline", "images", resized)

InitStyle == InitCalls(Calls("convert", Conversions))
NextStyle == ReinjectQuotes \/ StyleTree \/ StyleInlineCode \/ ResizeImages
SpecStyle == InitStyle /\ [][NextStyle]_vars

\* ------------------------------------------------------- parse_font_size

RECURSIVE Num(_, _)
\* The number m * 10^e, written with the least m.
Num(m, e) == IF m # 0 /\ m % 10 = 0 THEN Num(m \div 10, e + 1)
             ELSE [m |-> m, e |-> IF m = 0 THEN 0 ELSE e]

\* Python values: an int or a float with its number, a str with its text, None.
PyValue(type, num, text) == [type |-> type, num |-> num, text |-> text]

CHINESE_FONT_SIZE_MAP ==
    (<<"u521D", "u53F7">> :> Num(42, 0)) @@ (<<"u5C0F", "u521D">> :> Num(36, 0)) @@
    (<<"u4E00", "u53F7">> :> Num(26, 0)) @@ (<<"u5C0F", "u4E00">> :> Num(24, 0)) @@
    (<<"u4E8C", "u53F7">> :> Num(22, 0)) @@ (<<"u5C0F", "u4E8C">> :> Num(18, 0)) @@
    (<<"u4E09", "u53F7">> :> Num(16, 0)) @@ (<<"u5C0F", "u4E09">> :> Num(15, 0)) @@
    (<<"u56DB", "u53F7">> :> Num(14, 0)) @@ (<<"u5C0F", "u56DB">> :> Num(12, 0)) @@
    (<<"u4E94", "u53F7">> :> Num(105, -1)) @@ (<<"u5C0F", "u4E94">> :> Num(9, 0)) @@
    (<<"u516D", "u53F7">> :> Num(75, -1)) @@ (<<"u5C0F", "u516D">> :> Num(65, -1)) @@
    (<<"u4E03", "u53F7">> :> Num(55, -1)) @@ (<<"u516B", "u53F7">> :> Num(5, 0))

RECURSIVE DecimalValue(_)
\* The number a text of digits writes.
DecimalValue(digits) ==
    IF digits = <<>> THEN 0
    ELSE 10 * DecimalValue(SubSeq(digits, 1, Len(digits) - 1))
           + (CHOOSE d \in 0..9 : Digits(d) = <<digits[Len(digits)]>>)

\* float(value): of an int or a float its number, unless the int is beyond
\* the largest float; of a str the number it writes, as digits with at most
\* one point, blanks around them ignored.
float(given) ==
    IF given.type = "str"
    THEN LET t == strip(given.text)
             point == {i \in 1..Len(t) : t[i] = "."}
             digits == SelectSeq(t, LAMBDA c : c # ".")
         IN  IF /\ digits # <<>>
                /\ \A i \in 1..Len(digits) : \E d \in 0..9 : Digits(d) = <<digits[i]>>
                /\ Cardinality(point) <= 1
             THEN Returned(Num(DecimalValue(digits),
                               IF point = {} THEN 0
                               ELSE 0 - (Len(t) - (CHOOSE i \in point : TRUE))))
             ELSE Raised("ValueError")
    ELSE IF given.type = "int" /\ Len(Digits(given.num.m)) + given.num.e > FloatMaxDigits
         THEN Raised("OverflowError")
         ELSE Returned(given.num)

parse_font_size(given) ==
    LET default == Returned(Num(105, -1))
    IN  IF given.type \in {"int", "float"} THEN float(given)
        ELSE IF given.type = "str"
             THEN LET stripped == strip(given.text)
                  IN  IF stripped \in DOMAIN CHINESE_FONT_SIZE_MAP
                      THEN Returned(CHINESE_FONT_SIZE_MAP[stripped])
                      ELSE IF float(given).exc = "ValueError" THEN default
                           ELSE float(given)
             ELSE default

\* Font sizes given: whole numbers and numbers with a fraction, one of them an
\* int no float can hold; None; and texts of up to MaxSizePieces pieces, each a
\* named size, a digit, a point, a blank or a letter.
FontSizeValues ==
    {PyValue("int", Num(m, 0), <<>>) : m \in {0, 12, 16}}
      \cup {PyValue("int", Num(1, 400), <<>>)}
      \cup {PyValue("float", n, <<>>) : n \in {Num(105, -1), Num(14, 0)}}
      \cup {PyValue("NoneType", Num(0, 0), <<>>)}
      \cup {PyValue("str", Num(0, 0), t) :
              t \in TextsOf(DOMAIN CHINESE_FONT_SIZE_MAP
                              \cup {<<"1">>, <<"5">>, <<".">>, <<" ">>, <<"x">>},
                            MaxSizePieces)}

ParseFontSize == Returns("parse_font_size", parse_font_size(argument.arg))

\* ------------------------------------------- configurations as dictionaries

\* dict.get
Get(data, key, default) == IF key \in DOMAIN data THEN data[key] ELSE default

PyNone == PyValue("NoneType", Num(0, 0), <<>>)
PyInt(n) == PyValue("int", Num(n, 0), <<>>)

\* StyleConfig.to_dict
to_dict(self) ==
    [font_name |-> self.font_name, font_size |-> self.font_size, bold |-> self.bold,
     italic |-> self.italic, color |-> self.color, space_before |-> self.space_before,
     space_after |-> self.space_after, line_spacing |-> self.line_spacing,
     left_indent |-> self.left_indent, background_color |-> self.background_color,
     alignment |-> self.alignment, line_spacing_rule |-> self.line_spacing_rule,
     line_spacing_value |-> self.line_spacing_value,
     first_line_indent |-> self.first_line_indent, is_heading |-> self.is_heading,
     numbering_format |-> self.numbering_format]

\* StyleConfig.from_dict
from_dict(data, default_font) ==
    LET font_size == parse_font_size(Get(data, "font_size", PyInt(11)))
    IN  IF font_size.exc # "" THEN font_size
        ELSE Returned(
               [font_name |-> Get(data, "font_name", default_font),
                font_size |-> PyValue("float", font_size.out, <<>>),
                bold |-> Get(data, "bold", FALSE),
                italic |-> Get(data, "italic", FALSE),
                color |-> Get(data, "color", "000000"),
                space_before |-> Get(data, "space_before", PyInt(0)),
                space_after |-> Get(data, "space_after", PyInt(6)),
                line_spacing |-> Get(data, "line_spacing", PyValue("float", Num(1, 0), <<>>)),
                left_indent |-> Get(data, "left_indent", PyInt(0)),
                background_color |-> Get(data, "background_color", PyNone),
                alignment |-> Get(data, "alignment", "left"),
                line_spacing_rule |-> Get(data, "line_spacing_rule", "multiple"),
                line_spacing_value |-> Get(data, "line_spacing_value", PyNone),
                first_line_indent |-> Get(data, "first_line_indent", PyInt(0)),
                is_heading |-> Get(data, "is_heading", TRUE),
                numbering_format |-> Get(data, "numbering_format", PyNone)])

\* StyleConfig(), but for the font name
NewStyleConfig(font_name) == from_dict([font_name |-> font_name], font_name).out

\* TableConfig.to_dict; the dictionary has the keys of the fields.
table_to_dict(self) == [key \in DOMAIN self |-> self[key]]

\* TableConfig.from_dict
table_from_dict(data) ==
    [border_style |-> Get(data, "border_style", "single"),
     border_color |-> Get(data, "border_color", "000000"),
     border_width |-> Get(data, "border_width", PyInt(4)),
     header_background_color |-> Get(data, "header_background_color", PyNone),
     cell_background_color |-> Get(data, "cell_background_color", PyNone),
     alternating_row_color |-> Get(data, "alternating_row_color", PyNone),
     cell_padding_top |-> Get(data, "cell_padding_top", PyInt(2)),
     cell_padding_bottom |-> Get(data, "cell_padding_bottom", PyInt(2)),
     cell_padding_left |-> Get(data, "cell_padding_left", PyInt(5)),
     cell_padding_right |-> Get(data, "cell_padding_right", PyInt(5)),
     width_mode |-> Get(data, "width_mode", "auto"),
     width_inches |-> Get(data, "width_inches", PyNone)]

\* Config.to_dict
config_to_dict(self) ==
    [document |-> [default_font |-> self.default_font,
                   page_width_inches |-> self.page_width_inches,
                   page_height_inches |-> self.page_height_inches,
                   max_image_width_inches |-> self.max_image_width_inches],
     image |-> [local_dir |-> self.image_local_dir,
                download_timeout |-> self.image_download_timeout,
                user_agent |-> self.image_user_agent],
     styles |-> [name \in DOMAIN self.styles |-> to_dict(self.styles[name])],
     table |-> table_to_dict(self.table)]

\* Config(): the defaults of the dataclass
NewConfig ==
    [default_font |-> "u5FAEu8F6Fu96C5u9ED1",
     page_width_inches |-> PyValue("float", Num(85, -1), <<>>),
     page_height_inches |-> PyInt(11),
     max_image_width_inches |-> PyValue("float", Num(6, 0), <<>>),
     image_local_dir |-> "./images",
     image_download_timeout |-> PyInt(30),
     image_user_agent |-> "Mozilla/5.0",
     styles |-> <<>>,
     table |-> table_from_dict(<<>>)]

\* Config.from_dict
config_from_dict(data) ==
    LET config == NewConfig
        doc_config == Get(data, "document", <<>>)
        img_config == Get(data, "image", <<>>)
        styles_data == Get(data, "styles", <<>>)
        table_data == Get(data, "table", <<>>)
        default_font == Get(doc_config, "default_font", config.default_font)
        styles == [name \in DOMAIN styles_data |-> from_dict(styles_data[name], default_font)]
        failed == {name \in DOMAIN styles : styles[name].exc # ""}
    IN  IF failed # {} THEN Raised(styles[CHOOSE name \in failed : TRUE].exc)
        ELSE Returned(
               [default_font |-> default_font,
                page_width_inches |->
                    Get(doc_config, "page_width_inches", config.page_width_inches),
                page_height_inches |->
                    Get(doc_config, "page_height_inches", config.page_height_inches),
                max_image_width_inches |->
                    Get(doc_config, "max_image_width_inches", config.max_image_width_inches),
                image_local_dir |-> Get(img_config, "local_dir", config.image_local_dir),
                image_download_timeout |->
                    Get(img_config, "download_timeout", config.image_download_timeout),
                image_user_agent |-> Get(img_config, "user_agent", config.image_user_agent),
                styles |-> [name \in DOMAIN styles |-> styles[name].out],
                table |-> IF DOMAIN table_data # {} THEN table_from_dict(table_data)
                          ELSE config.table])

\* What json.load reads back from what json.dump wrote for the dictionary of
\* a Config: a number is written with its digits, with a fraction or an
\* exponent when it is a float, and is read as an int when it has neither;
\* texts, truth values and None come back as they were.
json_load(data) ==
    LET written(v) == IF v.type \in {"int", "float"}
                      THEN [token |-> "number", num |-> v.num, fraction |-> v.type = "float"]
                      ELSE [token |-> v.type, num |-> v.num, text |-> v.text]
        read(w) == IF w.token = "number"
                   THEN PyValue(IF w.fraction THEN "float" ELSE "int", w.num, <<>>)
                   ELSE PyValue(w.token, w.num, w.text)
        values(d, keys) == [key \in DOMAIN d |->
                               IF key \in keys THEN read(written(d[key])) ELSE d[key]]
        style_numbers == {"font_size", "space_before", "space_after", "line_spacing",
                          "left_indent", "background_color", "line_spacing_value",
                          "first_line_indent", "numbering_format"}
        table_numbers == {"border_width", "header_background_color",
                          "cell_background_color", "alternating_row_color",
                          "cell_padding_top", "cell_padding_bottom", "cell_padding_left",
                          "cell_padding_right", "width_inches"}
    IN  [document |-> values(data.document, {"page_width_inches", "page_height_inches",
                                             "max_image_width_inches"}),
         image |-> values(data.image, {"download_timeout"}),
         styles |-> [name \in DOMAIN data.styles |->
                        values(data.styles[name], style_numbers)],
         table |-> values(data.table, table_numbers)]

\* StyleConfig objects: the default but for the font name, the font size (an
\* int, a float, an int no float can hold), bold, the background and the
\* numbering format.
StyleConfigs ==
    { [NewStyleConfig(font_name) EXCEPT !.font_size = font_size, !.bold = bold,
                                        !.background_color = background,
                                        !.numbering_format = numbering] :
        font_name \in {"u5FAEu8F6Fu96C5u9ED1", "Consolas"},
        font_size \in {PyInt(11), PyValue("float", Num(105, -1), <<>>),
                       PyValue("int", Num(1, 400), <<>>)},
        bold \in BOOLEAN,
        background \in {PyNone, PyValue("str", Num(0, 0), <<"f", "5", "f", "5", "f", "5">>)},
        numbering \in {PyNone, PyValue("str", Num(0, 0), chapter)} }

\* Config objects: the default but for the default font, the widest picture,
\* the styles (none, or one style named body) and the width of tables.
Configs ==
    { [NewConfig EXCEPT !.default_font = default_font,
                        !.max_image_width_inches = max_width,
                        !.styles = styles,
                        !.table = [@ EXCEPT !.width_mode = width_mode,
                                            !.width_inches = width_inches]] :
        default_font \in {"u5FAEu8F6Fu96C5u9ED1", "u4EFFu5B8B"},
        max_width \in {PyInt(6), PyValue("float", Num(55, -1), <<>>)},
        styles \in {<<>>} \cup {("body" :> s) : s \in StyleConfigs},
        width_mode \in {"auto", "fixed"},
        width_inches \in {PyNone, PyInt(4)} }

\* s.to_dict() is parsed again.
ReparseStyle ==
    Returns("StyleConfig.from_dict", from_dict(to_dict(argument.arg), "u5FAEu8F6Fu96C5u9ED1"))

\* c.to_dict() is parsed again.
ReparseConfig == Returns("Config.from_dict", config_from_dict(config_to_dict(argument.arg)))

\* c is saved to a file and the file is loaded.
SaveAndLoad ==
    Returns("Config.from_file", config_from_dict(json_load(config_to_dict(argument.arg))))

\* ------------------------------------------------------------ the formulas

\* FormulaInfo(placeholder, latex, is_block)
FormulaInfo(placeholder, latex, is_block) ==
    [placeholder |-> placeholder, latex |-> latex, is_block |-> is_block]

\* The placeholder of the formula found when count formulas were found
\* before it: a token for the kind, and the count.
FormulaPlaceholder(is_block, count) ==
    <<IF is_block THEN "FORMULABLOCK" ELSE "FORMULAINLINE">> \o Digits(count)

\* The delimiter stands in the text at i.
DelimiterAt(text, delimiter, i) ==
    /\ i >= 1
    /\ i + Len(delimiter) - 1 <= Len(text)
    /\ SubSeq(text, i, i + Len(delimiter) - 1) = delimiter

\* Where the spans of the delimiter can start: where the delimiter stands and
\* stands again after at least one character.
SpanStarts(text, delimiter) ==
    {i \in 1..Len(text) :
        /\ DelimiterAt(text, delimiter, i)
        /\ \E j \in (i + Len(delimiter) + 1)..Len(text) : DelimiterAt(text, delimiter, j)}

RECURSIVE ExtractSpans(_, _, _, _)
\* One scan from left to right: the leftmost span, closed by the nearest
\* delimiter (non-greedy), becomes a placeholder and a record, and the scan
\* goes on behind it (non-nested).
ExtractSpans(text, delimiter, is_block, count) ==
    IF SpanStarts(text, delimiter) = {} THEN [text |-> text, formulas |-> <<>>]
    ELSE LET i == CHOOSE s \in SpanStarts(text, delimiter) :
                      \A other \in SpanStarts(text, delimiter) : s <= other
             closes == {j \in (i + Len(delimiter) + 1)..Len(text) :
                           DelimiterAt(text, delimiter, j)}
             j == CHOOSE c \in closes : \A other \in closes : c <= other
             placeholder == FormulaPlaceholder(is_block, count)
             rest == ExtractSpans(SubSeq(text, j + Len(delimiter), Len(text)),
                                  delimiter, is_block, count + 1)
         IN  [text |-> SubSeq(text, 1, i - 1) \o placeholder \o rest.text,
              formulas |-> <<FormulaInfo(placeholder,
                                         SubSeq(text, i + Len(delimiter), j - 1),
                                         is_block)>> \o rest.formulas]

\* The inline scan alone: every span is taken between single delimiters.
extract_inline_only(text) == ExtractSpans(text, <<"$">>, FALSE, 0)

\* extract_latex_formulas: the block delimiters before the inline ones
extract_latex_formulas(text) ==
    LET blocks == ExtractSpans(text, <<"$", "$">>, TRUE, 0)
        inlines == ExtractSpans(blocks.text, <<"$">>, FALSE, Len(blocks.formulas))
    IN  [text |-> inlines.text, formulas |-> blocks.formulas \o inlines.formulas]

\* Markdown texts with formulas
FormulaTexts ==
    TextsOf({<<"$", "a", "$">>, <<"$", "$", "b", "$", "$">>, <<"a">>, <<"$">>},
            MaxFormulaPieces)

ExtractFormulas ==
    Returns("extract_latex_formulas", extract_latex_formulas(argument.arg))

\* ------------------------------------------------ the format of stored images

\* The modes in which Pillow opens an image of each format, among the formats
\* met on the web: palette and gray-scale GIF, BMP without alpha, WebP and
\* TIFF with or without alpha, and PNG and JPEG themselves.
ImageModes(format) ==
    CASE format = "png" -> {"L", "LA", "P", "RGB", "RGBA"}
      [] format = "jpeg" -> {"L", "RGB", "CMYK"}
      [] format = "gif" -> {"L", "P"}
      [] format = "bmp" -> {"1", "L", "P", "RGB"}
      [] format = "webp" -> {"RGB", "RGBA"}
      [] format = "tiff" -> {"1", "L", "LA", "P", "RGB", "RGBA", "CMYK"}

\* Image.open(BytesIO(image_content)) for every image content: its format in
\* lower case, its mode, and whether image.info has a "transparency" entry
\* (palette and gray-scale images only).
ImageContents ==
    {image \in [format : {"png", "jpeg", "gif", "bmp", "webp", "tiff"},
                mode : {"1", "L", "LA", "P", "RGB", "RGBA", "CMYK"},
                transparency : BOOLEAN] :
        /\ image.mode \in ImageModes(image.format)
        /\ image.transparency =>
              image.mode \in {"L", "P"} /\ image.format \in {"png", "gif", "tiff"}}

\* target_format of process_image_content: the original format when it is
\* PNG or JPEG, else PNG for modes RGBA and LA and for transparency, else JPEG.
target_format(image) ==
    IF image.format \notin {"png", "jpeg", "jpg"}
    THEN IF image.mode \in {"RGBA", "LA"} \/ image.transparency THEN "png" ELSE "jpeg"
    ELSE image.format

\* The modes image.save can write in each format: Pillow's JPEG encoder takes
\* 1, L, RGB, RGBX, CMYK and YCbCr and raises OSError("cannot write mode ...
\* as JPEG") for any other; its PNG encoder takes no CMYK.
SaveModes(format) ==
    IF format = "jpeg" THEN {"1", "L", "RGB", "RGBX", "CMYK", "YCbCr"}
    ELSE {"1", "L", "LA", "I", "P", "RGB", "RGBA"}

\* The file process_image_content writes: its format, and its pixels:
\* "unchanged" for the input bytes, "encoded" for the image written again,
\* "on_white" for the image pasted on a white background and written again;
\* exc is the exception of image.save.
write_image(image) ==
    LET format == target_format(image)
        flattened == format = "jpeg" /\ image.mode \in {"RGBA", "LA"}
        mode == IF flattened THEN "RGB" ELSE image.mode
    IN  IF image.format = format
        THEN [format |-> format, pixels |-> "unchanged", exc |-> ""]
        ELSE IF mode \notin SaveModes(format)
        THEN [format |-> "", pixels |-> "", exc |-> "OSError"]
        ELSE [format |-> format,
              pixels |-> IF flattened THEN "on_white" ELSE "encoded",
              exc |-> ""]

\* process_image_content(image_content, url) for an image stored anew.
ProcessImageContent ==
    /\ argument.fn = "process_image_content"
    /\ Returns("process_image_content", write_image(argument.arg))

\* ------------------------------------------ one call of one of the functions

InitFunctions ==
    \/ InitCalls(Calls("convert_file", FileTexts))
    \/ InitCalls(Calls("extract_code_blocks", CodeTexts))
    \/ InitCalls(Calls("parse_font_size", FontSizeValues))
    \/ InitCalls(Calls("StyleConfig.from_dict", StyleConfigs))
    \/ InitCalls(Calls("Config.from_dict", Configs))
    \/ InitCalls(Calls("Config.from_file", Configs))
    \/ InitCalls(Calls("extract_latex_formulas", FormulaTexts))
    \/ InitCalls(Calls("process_image_content", ImageContents))

NextFunctions ==
    \/ ReadMarkdown
    \/ ExtractCode
    \/ ParseFontSize
    \/ ReparseStyle
    \/ ReparseConfig
    \/ SaveAndLoad
    \/ ExtractFormulas
    \/ ProcessImageContent

SpecFunctions == InitFunctions /\ [][NextFunctions]_vars

\* ------------------------------------------------- the statements of convert

\* The stages of convert in the order of its statements (converter.py
\* 1036-1112).
CONVERT_STAGES ==
    <<"ExtractFormulas", "ResolveMarkdownImages", "GenericConvert", "SanitizeHtmlImages",
      "ExtractCode", "ExtractQuotes", "BuildDocumentTree", "ReinjectCode",
      "ReinjectQuotes", "ReinjectFormulas", "ApplyStyles", "StyleInlineCode",
      "ResizeImages", "InsertTOC", "Persist">>

\* The condition convert puts in front of the statement of a stage: what the
\* extractions found, and for the table of contents the flag of the call and
\* the paragraphs of the document.
StageRuns(stage, conv, paragraphs) ==
    CASE stage = "ReinjectCode" -> conv.code_blocks
      [] stage = "ReinjectQuotes" -> conv.blockquotes
      [] stage = "ReinjectFormulas" -> conv.formulas
      [] stage = "StyleInlineCode" -> conv.inline_codes
      [] stage = "InsertTOC" -> conv.toc /\ Len(paragraphs) > 0
      [] OTHER -> TRUE

\* The stage whose statement runs next when the statements stand in order
\* and stage has finished ("" before the first and after the last).
FollowingIn(order, stage, conv, paragraphs) ==
    LET at == IF stage = "" THEN 0 ELSE CHOOSE i \in 1..Len(order) : order[i] = stage
        later == {i \in (at + 1)..Len(order) : StageRuns(order[i], conv, paragraphs)}
    IN  IF later = {} THEN "" ELSE order[CHOOSE i \in later : \A j \in later : i <= j]

\* convert with the two extractions of the HTML exchanged.
StageAfterQuotesFirst(stage, conv, paragraphs) ==
    FollowingIn([i \in 1..Len(CONVERT_STAGES) |->
                    IF i = 5 THEN CONVERT_STAGES[6]
                    ELSE IF i = 6 THEN CONVERT_STAGES[5] ELSE CONVERT_STAGES[i]],
                stage, conv, paragraphs)

\* The stage convert goes on with after stage.
StageAfter(stage, conv, paragraphs) == FollowingIn(CONVERT_STAGES, stage, conv, paragraphs)

\* The calls of convert: what the extractions will find, whether a table of
\* contents is asked for, the headings, and the image elements the HTML holds
\* after sanitize_html_images, all of them local files.
StagedConversions ==
    [formulas : BOOLEAN, code_blocks : BOOLEAN, blockquotes : BOOLEAN,
     inline_codes : BOOLEAN, toc : BOOLEAN, outline : {<<>>, <<1>>},
     images : UNION {[1..n -> {Reference("local", "", <<"a">>, h) :
                                  h \in {"ok", "unrecognized", "rejected"}}] :
                        n \in 0..MaxImages}]

\* convert is inside its statements: which stages have run, the HTML and the
\* document as they stand, the builds tried and the exception in flight.
Running(trace, html, doc, attempts, exc) ==
    [at |-> "running",
     val |-> [trace |-> trace, html |-> html, document |-> doc, attempts |-> attempts,
              exc |-> exc]]

\* document = Document(); add_html_to_document(html, document) with the
\* builder appending to the document left by the attempt before.
build_on_old_document(old, outline, html) ==
    IF UnrecognizedImageError(html, NoFiles)
    THEN old \o [i \in 1..Len(outline) |-> Paragraph("heading", outline[i], <<>>, 0)]
    ELSE old \o add_html_to_document(outline, html)

\* document = Document(); new_parser.add_html_to_document(html, document): the
\* document the attempt leaves, whatever the attempt before left.  An attempt
\* that raises has put the headings in front of the image into its document.
build_on_new_document(old, outline, html) ==
    IF UnrecognizedImageError(html, NoFiles)
    THEN [i \in 1..Len(outline) |-> Paragraph("heading", outline[i], <<>>, 0)]
    ELSE add_html_to_document(outline, html)

\* convert is called: nothing has run.
CallConvert ==
    /\ argument.fn = "convert"
    /\ value.at = "called"
    /\ value' = Running(<<>>, argument.arg.images, <<>>, 0, "")
    /\ UNCHANGED <<argument, numVars, pipeVars>>

\* The statement of the next stage that is not the build of the tree: it
\* runs to its end, or the save fails.
RunStage ==
    /\ argument.fn = "convert"
    /\ value.at = "running"
    /\ value.val.exc = ""
    /\ LET v == value.val
           done == IF v.trace = <<>> THEN "" ELSE v.trace[Len(v.trace)]
           stage == StageAfter(done, argument.arg, v.document)
       IN  /\ stage \notin {"", "BuildDocumentTree"}
           /\ \E failed \in {FALSE, stage = "Persist"} :
                value' = [Running(Append(v.trace, stage), v.html,
                                  IF stage = "InsertTOC"
                                  THEN add_toc(v.document, DefaultTocLevel)
                                  ELSE v.document,
                                  v.attempts, IF failed THEN "OSError" ELSE "")
                          EXCEPT !.at = IF failed THEN "raised"
                                        ELSE IF stage = "Persist" THEN "returned"
                                        ELSE "running"]
    /\ UNCHANGED <<argument, numVars, pipeVars>>

\* One attempt to build the tree (converter.py 1064-1082): the first on the
\* HTML, the second, after an UnrecognizedImageError, on html_filtered, the
\* third on html_without_images; no handler is around the third.  The builder
\* may also fail for another reason (fault), which no handler catches.
AttemptBuild ==
    /\ argument.fn = "convert"
    /\ value.at = "running"
    /\ LET v == value.val
           done == IF v.trace = <<>> THEN "" ELSE v.trace[Len(v.trace)]
           html == IF v.attempts = 0 THEN v.html
                   ELSE IF v.attempts = 1 THEN filter_unrecognized_images(v.html, NoFiles)
                   ELSE html_without_images(v.html)
       IN  /\ \/ v.exc = "" /\ StageAfter(done, argument.arg, v.document) = "BuildDocumentTree"
              \/ v.exc = "UnrecognizedImageError" /\ done = "BuildDocumentTree"
                    /\ v.attempts < 3
           /\ \E fault \in BOOLEAN :
                LET exc == IF UnrecognizedImageError(html, NoFiles)
                           THEN "UnrecognizedImageError"
                           ELSE IF fault THEN "BuildError" ELSE ""
                    caught == exc = "UnrecognizedImageError" /\ v.attempts < 2
                IN  value' = [Running(Append(v.trace, "BuildDocumentTree"), html,
                                      build_on_new_document(v.document, argument.arg.outline,
                                                            html),
                                      v.attempts + 1, exc)
                              EXCEPT !.at = IF exc = "" \/ caught THEN "running"
                                            ELSE "raised"]
    /\ UNCHANGED <<argument, numVars, pipeVars>>

InitStages == InitCalls(Calls("convert", StagedConversions))
NextStages == CallConvert \/ RunStage \/ AttemptBuild
SpecStages == InitStages /\ [][NextStages]_vars

\* ------------------------------------------------- placeholders in the HTML

\* The HTML is a sequence of tokens: a tag is one token, a character of text
\* another.  "<td>" stands for the tags that open a table up to its cell and
\* "</td>" for those that close it.
Tags == {"<p>", "</p>", "<pre>", "</pre>", "<code>", "</code>", "<blockquote>",
         "</blockquote>", "<td>", "</td>"}

CodeBlockPlaceholder(idx) == <<"__CODE_BLOCK_PLACEHOLDER_">> \o Digits(idx) \o <<"__">>

\* The replace chain that decodes the entities (converter.py 412-413, 498-499,
\* 531-532).
decode_entities(text) ==
    Replace(Replace(Replace(Replace(Replace(text, Lt, <<"<">>), Gt, <<">">>), Amp, <<"&">>),
                    Quot, <<"\"">>), Apos, <<"'">>)

\* re.sub(r"<[^>]+>", "", block_html): the text without its tags.
WithoutTags(html) == SelectSeq(html, LAMBDA token : token \notin Tags)

\* Where a match of open.*?close starts, and where the match from i ends.
SpanOpens(html, open, close) ==
    {i \in 1..Len(html) : html[i] = open /\ \E j \in (i + 1)..Len(html) : html[j] = close}
SpanClose(html, i, close) ==
    CHOOSE j \in (i + 1)..Len(html) :
        html[j] = close /\ \A k \in (i + 1)..(j - 1) : html[k] # close

RECURSIVE PreBlocksFrom(_, _)
\* re.sub(r"<pre[^>]*>.*?</pre>", save_code_block, html_content) when count
\* code blocks were saved before: the HTML and the blocks saved.  (markdown2
\* writes no codehilite div without Pygments, so the first re.sub of
\* extract_code_blocks finds nothing.)
PreBlocksFrom(html, count) ==
    LET opens == SpanOpens(html, "<pre>", "</pre>")
    IN  IF opens = {} THEN [html |-> html, code_blocks |-> <<>>]
        ELSE LET i == CHOOSE a \in opens : \A b \in opens : a <= b
                 j == SpanClose(html, i, "</pre>")
                 block_html == SubSeq(html, i, j)
                 codes == SpanOpens(block_html, "<code>", "</code>")
                 code_text ==
                     IF codes # {}
                     THEN LET a == CHOOSE c \in codes : \A d \in codes : c <= d
                          IN  decode_entities(SubSeq(block_html, a + 1,
                                                     SpanClose(block_html, a, "</code>") - 1))
                     ELSE SubSeq(block_html, 2, Len(block_html) - 1)
                 saved == [code |-> strip(code_text),
                           placeholder |-> CodeBlockPlaceholder(count)]
                 rest == PreBlocksFrom(SubSeq(html, j + 1, Len(html)), count + 1)
             IN  [html |-> SubSeq(html, 1, i - 1) \o <<"<p>">> \o saved.placeholder
                             \o <<"</p>">> \o rest.html,
                  code_blocks |-> <<saved>> \o rest.code_blocks]

RECURSIVE InlineCodesFrom(_)
\* re.sub(r"<code>([^<]*)</code>", mark_inline_code, html_content)
InlineCodesFrom(html) ==
    LET matches == {i \in 1..Len(html) :
                       /\ html[i] = "<code>"
                       /\ \E j \in (i + 1)..Len(html) :
                             /\ html[j] = "</code>"
                             /\ \A k \in (i + 1)..(j - 1) : html[k] \notin Tags \cup {"<"}}
    IN  IF matches = {} THEN [html |-> html, inline_codes |-> <<>>]
        ELSE LET i == CHOOSE a \in matches : \A b \in matches : a <= b
                 j == SpanClose(html, i, "</code>")
                 code_text == decode_entities(SubSeq(html, i + 1, j - 1))
                 rest == InlineCodesFrom(SubSeq(html, j + 1, Len(html)))
             IN  [html |-> SubSeq(html, 1, i - 1) \o <<CodeOpen>> \o code_text
                             \o <<CodeClose>> \o rest.html,
                  inline_codes |-> <<code_text>> \o rest.inline_codes]

extract_code_blocks(html_content) ==
    LET blocks == PreBlocksFrom(html_content, 0)
        marked == InlineCodesFrom(blocks.html)
    IN  [html |-> marked.html, code_blocks |-> blocks.code_blocks,
         inline_codes |-> marked.inline_codes]

RECURSIVE BlockquotesFrom(_, _)
\* re.sub(r"<blockquote[^>]*>.*?</blockquote>", save_blockquote, html_content)
\* when count quotes were saved before
BlockquotesFrom(html, count) ==
    LET opens == SpanOpens(html, "<blockquote>", "</blockquote>")
    IN  IF opens = {} THEN [html |-> html, blockquotes |-> <<>>]
        ELSE LET i == CHOOSE a \in opens : \A b \in opens : a <= b
                 j == SpanClose(html, i, "</blockquote>")
                 text == decode_entities(strip(WithoutTags(SubSeq(html, i, j))))
                 rest == BlockquotesFrom(SubSeq(html, j + 1, Len(html)), count + 1)
             IN  [html |-> SubSeq(html, 1, i - 1) \o <<"<p>">> \o BlockquotePlaceholder(count)
                             \o <<"</p>">> \o rest.html,
                  blockquotes |-> <<text>> \o rest.blockquotes]

extract_blockquotes(html_content) == BlockquotesFrom(html_content, 0)

RECURSIVE unescape(_)
\* The text of an element as an HTML parser reads it: every entity, left to
\* right, is the character it names.
unescape(text) ==
    LET entities == {<<Lt, "<">>, <<Gt, ">">>, <<Amp, "&">>, <<Quot, "\"">>, <<Apos, "'">>}
        here == {e \in entities : startswith(text, e[1])}
    IN  IF text = <<>> THEN <<>>
        ELSE IF here # {}
        THEN LET e == CHOOSE x \in here : TRUE
             IN  <<e[2]>> \o unescape(SubSeq(text, Len(e[1]) + 1, Len(text)))
        ELSE <<Head(text)>> \o unescape(Tail(text))

RECURSIVE HtmlToDocx(_, _)
\* HtmlToDocx().add_html_to_document(html, document): every <p> element
\* becomes a paragraph with one run of its text; the paragraphs of the body
\* are document.paragraphs, those inside a table cell belong to the cell
\* (in_cell); a closing tag without its opening tag is passed over.
HtmlToDocx(html, in_cell) ==
    IF html = <<>> THEN [paragraphs |-> <<>>, cells |-> <<>>]
    ELSE IF html[1] = "<p>" /\ \E j \in 2..Len(html) : html[j] = "</p>"
    THEN LET j == SpanClose(html, 1, "</p>")
             paragraph == [runs |-> <<Run(unescape(WithoutTags(SubSeq(html, 2, j - 1))),
                                          FALSE, FALSE)>>,
                           border |-> ""]
             rest == HtmlToDocx(SubSeq(html, j + 1, Len(html)), in_cell)
         IN  IF in_cell THEN [rest EXCEPT !.cells = <<paragraph>> \o @]
             ELSE [rest EXCEPT !.paragraphs = <<paragraph>> \o @]
    ELSE HtmlToDocx(Tail(html), IF html[1] = "<td>" THEN TRUE
                                ELSE IF html[1] = "</td>" THEN FALSE ELSE in_cell)

\* add_code_block_to_document for a code text of one line: the paragraph is
\* cleared and gets one run in the code font, spacing of its own (format) and
\* the shading.
add_code_block_to_document(paragraph, code_text, config) ==
    LET code_style == config.styles.code
        bg_color == IF code_style.background_color # "" THEN code_style.background_color
                    ELSE "f5f5f5"
    IN  [runs |-> <<[text |-> code_text, font_name |-> code_style.font_name,
                     font_size |-> code_style.font_size, bold |-> FALSE, italic |-> FALSE,
                     color |-> "", shd |-> ""]>>,
         border |-> paragraph.border,
         format |-> "code",
         shd |-> bg_color]

\* replace_code_block_placeholders: every paragraph of document.paragraphs
\* whose text is the placeholder of a code block becomes that code block.
replace_code_block_placeholders(paragraphs, code_blocks, config) ==
    LET found(p) == {n \in 1..Len(code_blocks) :
                        code_blocks[n].placeholder = strip(ParagraphText(p))}
    IN  [k \in 1..Len(paragraphs) |->
            IF found(paragraphs[k]) = {} THEN paragraphs[k]
            ELSE add_code_block_to_document(
                     paragraphs[k],
                     code_blocks[CHOOSE n \in found(paragraphs[k]) : TRUE].code, config)]

\* str.lower() of a fill
LowerFill(fill) ==
    CASE fill = "FFFFFF" -> "ffffff" [] fill = "Auto" -> "auto" [] fill = "F5F5F5" -> "f5f5f5"
      [] OTHER -> fill

\* is_code_block_paragraph: the paragraph has a shading with a fill that is
\* not auto, ffffff or none.
is_code_block_paragraph(paragraph) ==
    /\ "shd" \in DOMAIN paragraph
    /\ paragraph.shd # ""
    /\ LowerFill(paragraph.shd) \notin {"auto", "ffffff", "none"}

\* The paragraph loop of apply_styles_to_document on paragraphs that are no
\* headings: a code block paragraph is skipped, every other paragraph gets the
\* format and its runs the font of the body style.
StyleBody(paragraphs, config) ==
    [k \in 1..Len(paragraphs) |->
        IF is_code_block_paragraph(paragraphs[k]) THEN paragraphs[k]
        ELSE [field \in DOMAIN paragraphs[k] \cup {"format"} |->
                 IF field = "format" THEN "body"
                 ELSE StyleParagraphs(<<paragraphs[k]>>, config)[1][field]]]

\* The configuration of the conversions of HTML: the body, blockquote and
\* code styles of DEFAULT_CONFIG, the code style with the given background.
HtmlConfig(background_color) ==
    [styles |->
        [body |-> StyleConfig("u4EFFu5B8B", 11, FALSE, FALSE, "000000"),
         blockquote |-> StyleConfig("u4EFFu5B8B", 11, FALSE, TRUE, "666666"),
         code |-> [font_name |-> "Consolas", font_size |-> 10, bold |-> FALSE,
                   italic |-> FALSE, color |-> "000000",
                   background_color |-> background_color]]]

\* The elements markdown2 writes for a paragraph, a fenced code block, a block
\* quote and a table cell.
P(text) == <<"<p>">> \o text \o <<"</p>">>
Pre(code) == <<"<pre>", "<code>">> \o code_html(code) \o <<"</code>", "</pre>">>
Blockquote(inner) == <<"<blockquote>">> \o inner \o <<"</blockquote>">>
Cell(inner) == <<"<td>">> \o inner \o <<"</td>">>
\* a text that ends in inline code
WithCode(code) ==
    <<"a", "<code>">> \o Replace(Replace(Replace(code, <<"&">>, Amp), <<"<">>, Lt),
                                 <<">">>, Gt) \o <<"</code>">>

\* Inline code: a letter, an ampersand, and an entity written out.
InlineCodes == {<<"c">>, <<"&">>, Quot}

\* The blocks of an input: paragraphs of plain text, of text that spells a
\* placeholder or a marker pair, and of text with inline code; a code block;
\* block quotes holding a paragraph, a code block or a block quote; table
\* cells holding a code block or inline code.
HtmlBlocks ==
    {P(<<"a">>), P(CodeBlockPlaceholder(0)), P(BlockquotePlaceholder(0)),
     P(<<CodeOpen, "a", CodeClose>>), Pre(<<"c">>),
     Blockquote(P(<<"q">>)), Blockquote(Pre(<<"c">>)),
     Blockquote(Blockquote(P(<<"q">>))), Cell(Pre(<<"c">>))}
    \cup {P(WithCode(code)) : code \in InlineCodes}
    \cup {Cell(P(WithCode(<<"c">>)))}

\* Every input of at most MaxBlocks blocks, with the default code background.
HtmlConversions ==
    {[blocks |-> blocks, config |-> HtmlConfig("")] :
        blocks \in UNION {[1..n -> HtmlBlocks] : n \in 0..MaxBlocks}}

\* html_content, code_blocks, inline_codes = extract_code_blocks(html_content);
\* html_content, blockquotes = extract_blockquotes(html_content)
ExtractPlaceholders ==
    /\ argument.fn = "convert_html"
    /\ value.at = "called"
    /\ LET code == extract_code_blocks(Concat(argument.arg.blocks))
           quotes == extract_blockquotes(code.html)
       IN  value' = [at |-> "extracted",
                     val |-> [html |-> quotes.html, code_blocks |-> code.code_blocks,
                              inline_codes |-> code.inline_codes,
                              blockquotes |-> quotes.blockquotes]]
    /\ UNCHANGED <<argument, numVars, pipeVars>>

\* The tree is built and the code blocks and the block quotes are put back.
\* replace_blockquote_placeholders returns at once without block quotes.
BuildAndReinject ==
    /\ argument.fn = "convert_html"
    /\ value.at = "extracted"
    /\ LET built == HtmlToDocx(value.val.html, FALSE)
           with_code == replace_code_block_placeholders(built.paragraphs,
                                                        value.val.code_blocks,
                                                        argument.arg.config)
           with_quotes == replace_blockquote_placeholders(with_code, value.val.blockquotes,
                                                          argument.arg.config)
       IN  value' = [at |-> "reinjected",
                     val |-> [html |-> value.val.html,
                              code_blocks |-> value.val.code_blocks,
                              inline_codes |-> value.val.inline_codes,
                              blockquotes |-> value.val.blockquotes,
                              built |-> built,
                              document |-> [built EXCEPT !.paragraphs = with_quotes]]]
    /\ UNCHANGED <<argument, numVars, pipeVars>>

\* apply_styles_to_document, style_inline_code_in_document when there is
\* inline code, and the save.
StyleAndPersist ==
    /\ argument.fn = "convert_html"
    /\ value.at = "reinjected"
    /\ LET styled == StyleBody(value.val.document.paragraphs, argument.arg.config)
           restyled == IF value.val.inline_codes # <<>>
                       THEN style_inline_code_in_document(styled, argument.arg.config)
                       ELSE styled
       IN  value' = [at |-> "persisted",
                     val |-> [value.val EXCEPT !.document.paragraphs = restyled]]
    /\ UNCHANGED <<argument, numVars, pipeVars>>

InitHtml == InitCalls(Calls("convert_html", HtmlConversions))
NextHtml == ExtractPlaceholders \/ BuildAndReinject \/ StyleAndPersist
SpecHtml == InitHtml /\ [][NextHtml]_vars

\* ------------------------------------------- code blocks and ApplyStyles

\* Values of background_color of the code style: not set, the default, a
\* gray, white in both spellings, and the two names Word has for no fill.
CodeBackgrounds == {"", "f5f5f5", "e0e0e0", "ffffff", "FFFFFF", "auto", "none"}

\* Documents of headings before a fenced code block, the code block and
\* headings after it, converted under each background of the code style.
ShadedDocuments ==
    [before : {<<>>, <<1>>},
     code : {<<"c">>, <<"c", "d">>},
     after : {<<>>, <<1>>, <<2>>},
     background_color : CodeBackgrounds]

\* get_heading_level: the level of a paragraph in a style "Heading n", None
\* (0) for any other paragraph.
get_heading_level(paragraph) == IF IsHeading(paragraph) THEN paragraph.level ELSE 0

\* The tree is built (headings with a run of text, the placeholder paragraph
\* of the code block in style Normal) and the code block is put back.
ReinjectCode ==
    /\ argument.fn = "style_code"
    /\ value.at = "called"
    /\ LET arg == argument.arg
           headings(outline) == [i \in 1..Len(outline) |->
                                    Paragraph("heading", outline[i], <<>>, 0)]
           placeholder == [runs |-> <<Run(CodeBlockPlaceholder(0), FALSE, FALSE)>>,
                           border |-> ""]
           shaded ==
               replace_code_block_placeholders(
                   <<placeholder>>,
                   <<[code |-> arg.code, placeholder |-> CodeBlockPlaceholder(0)]>>,
                   HtmlConfig(arg.background_color))[1]
               @@ Paragraph("body", 0, <<>>, 0)
       IN  value' = [at |-> "reinjected",
                     val |-> [paragraphs |-> headings(arg.before) \o <<shaded>>
                                             \o headings(arg.after)]]
    /\ UNCHANGED <<argument, numVars, pipeVars>>

\* The branches of the paragraph loop of apply_styles_to_document, given the
\* headings with their numbers (numbered): a heading keeps its number, every
\* other paragraph that is no code block takes the body style.
StyleBranches(numbered, config) ==
    [paragraphs |-> [k \in 1..Len(numbered.paragraphs) |->
                        IF get_heading_level(numbered.paragraphs[k]) # 0
                        THEN numbered.paragraphs[k]
                        ELSE StyleBody(<<numbered.paragraphs[k]>>, config)[1]],
     counters |-> numbered.counters]

\* apply_styles_to_document: the headings take their numbers, and every
\* paragraph that is no heading and no code block takes the body style.
ApplyStylesToCode ==
    /\ argument.fn = "style_code"
    /\ value.at = "reinjected"
    /\ value' = [at |-> "styled",
                 val |-> [reinjected |-> value.val.paragraphs]
                         @@ StyleBranches(
                                apply_styles_to_document(NewCounters, value.val.paragraphs,
                                                         DEFAULT_CONFIG),
                                HtmlConfig(argument.arg.background_color))]
    /\ UNCHANGED <<argument, numVars, pipeVars>>

InitShading == InitCalls(Calls("style_code", ShadedDocuments))
NextShading == ReinjectCode \/ ApplyStylesToCode
SpecShading == InitShading /\ [][NextShading]_vars

\* ------------------------------------------- the labels the schemes define

\* The Chinese numeral of k, composed from the numerals 1..10.
ChineseNumeral(k) ==
    LET units == <<"u4E00", "u4E8C", "u4E09", "u56DB", "u4E94", "u516D", "u4E03",
                   "u516B", "u4E5D">>
    IN  IF k > 20 THEN Digits(k)
        ELSE IF k < 10 THEN <<units[k]>>
        ELSE IF k = 10 THEN <<"u5341">>
        ELSE IF k < 20 THEN <<"u5341", units[k - 10]>>
        ELSE <<units[2], "u5341">>

\* The Roman numeral of k <= 39 by the additive and subtractive rules.
RomanNumeral(k) ==
    LET tens == [i \in 1..(k \div 10) |-> "X"]
        u == k % 10
        ones == IF u <= 3 THEN [i \in 1..u |-> "I"]
                ELSE IF u = 4 THEN <<"I", "V">>
                ELSE IF u <= 8 THEN <<"V">> \o [i \in 1..(u - 5) |-> "I"]
                ELSE <<"I", "X">>
    IN  tens \o ones

\* The k-th letter of the Latin alphabet, upper and lower case.
LatinUpper(k) ==
    <<"A", "B", "C", "D", "E", "F", "G", "H", "I", "J", "K", "L", "M", "N", "O", "P",
      "Q", "R", "S", "T", "U", "V", "W", "X", "Y", "Z">>[k]
LatinLower(k) ==
    <<"a", "b", "c", "d", "e", "f", "g", "h", "i", "j", "k", "l", "m", "n", "o", "p",
      "q", "r", "s", "t", "u", "v", "w", "x", "y", "z">>[k]

\* The circled digit k is the character U+2460 + k - 1.
CircledDigit(k) ==
    LET h == <<"0", "1", "2", "3", "4", "5", "6", "7", "8", "9", "A", "B", "C", "D",
               "E", "F">>
        code == 9312 + k - 1
    IN  "u" \o h[(code \div 4096) + 1] \o h[((code \div 256) % 16) + 1]
            \o h[((code \div 16) % 16) + 1] \o h[(code % 16) + 1]

\* Whether the characters of pat stand in t from position i on.
StandsAt(t, i, pat) ==
    i + Len(pat) - 1 <= Len(t) /\ SubSeq(t, i, i + Len(pat) - 1) = pat

RECURSIVE Substituted(_, _, _)
\* The template t from position i on with {n} and {cn} substituted; <<"?">>
\* marks a template that holds any other brace.
Substituted(t, i, k) ==
    IF i > Len(t) THEN <<>>
    ELSE IF StandsAt(t, i, <<"{", "n", "}">>)
    THEN LET r == Substituted(t, i + 3, k)
         IN  IF r = <<"?">> THEN r ELSE Digits(k) \o r
    ELSE IF StandsAt(t, i, <<"{", "c", "n", "}">>)
    THEN LET r == Substituted(t, i + 4, k)
         IN  IF r = <<"?">> THEN r ELSE ChineseNumeral(k) \o r
    ELSE IF t[i] \in {"{", "}"} THEN <<"?">>
    ELSE LET r == Substituted(t, i + 1, k)
         IN  IF r = <<"?">> THEN r ELSE <<t[i]>> \o r

\* The label of the k-th heading under the numbering format f.
ExpectedLabel(f, k) ==
    CASE f = chapter -> <<"u7B2C">> \o ChineseNumeral(k) \o <<"u7AE0">>
      [] f = section -> <<"u7B2C">> \o ChineseNumeral(k) \o <<"u8282">>
      [] f = chinese -> ChineseNumeral(k) \o <<"u3001">>
      [] f = chinese_paren -> <<"uFF08">> \o ChineseNumeral(k) \o <<"uFF09">>
      [] f = arabic -> Digits(k) \o <<".">>
      [] f = arabic_paren -> <<"(">> \o Digits(k) \o <<")">>
      [] f = arabic_bracket -> <<"[">> \o Digits(k) \o <<"]">>
      [] f = roman -> (IF k <= 20 THEN RomanNumeral(k) ELSE Digits(k)) \o <<".">>
      [] f = roman_lower ->
            (IF k <= 20 THEN [i \in 1..Len(RomanNumeral(k)) |->
                                 CASE RomanNumeral(k)[i] = "I" -> "i"
                                   [] RomanNumeral(k)[i] = "V" -> "v"
                                   [] RomanNumeral(k)[i] = "X" -> "x"]
             ELSE Digits(k)) \o <<".">>
      [] f = letter -> (IF k <= 26 THEN <<LatinUpper(k)>> ELSE Digits(k)) \o <<".">>
      [] f = letter_lower -> (IF k <= 26 THEN <<LatinLower(k)>> ELSE Digits(k)) \o <<".">>
      [] f = circle -> IF k <= 20 THEN <<CircledDigit(k)>>
                       ELSE <<"(">> \o Digits(k) \o <<")">>
      [] OTHER -> IF Substituted(f, 1, k) = <<"?">> THEN Digits(k) \o <<".", " ">>
                  ELSE Substituted(f, 1, k)

\* The levels of the specification at hand.
Levels == DOMAIN streak

\* ------------------------------------------------------------------ claims

\* C3 as claimed: on one HeadingNumbering, after any sequence of get_number and
\* reset calls, immediately after get_number(L1, f) with a numbering format f
\* every counter at a level L2 > L1 is zero, and the next call get_number(L2, g)
\* with a numbering format g returns the label for 1.
C3_DeeperLevelsRestart ==
    [][ (last'.op = "get" /\ ~IsNoneFormat(last'.fmt)) =>
          /\ \A l2 \in Levels : l2 > last'.level => Counter(counters', l2) = 0
          /\ (last.op = "get" /\ ~IsNoneFormat(last.fmt) /\ last'.level > last.level)
               => (last'.exc = "" /\ last'.out = ExpectedLabel(last'.fmt.chars, 1)) ]_numVars

\* C4 as claimed: every get_number call, whatever its format_name, increments
\* the counter of its level and sets the deeper counters to zero, and returns
\* the empty string for None, "" and "none".
C4_EveryCallCounts ==
    last.op = "get" =>
        /\ Counter(counters, last.level) = last.before + 1
        /\ \A l2 \in Levels : l2 > last.level => Counter(counters, l2) = 0
        /\ IsNoneFormat(last.fmt) => (last.exc = "" /\ last.out = <<>>)

\* C4 amended: a get_number call with a numbering format increments the counter
\* of its level and sets the deeper counters to zero; a call with None, "" or
\* "none" returns the empty string and changes no counter.
C4_NumberingCallCounts ==
    last.op = "get" =>
        IF IsNoneFormat(last.fmt)
        THEN last.exc = "" /\ last.out = <<>> /\ ~last.changed
        ELSE /\ Counter(counters, last.level) = last.before + 1
             /\ \A l2 \in Levels : l2 > last.level => Counter(counters, l2) = 0

\* C4 witness: get_number(1, "none") has returned with levels 1 and 2 counted.
C4_Witness ==
    /\ last.op = "get" /\ last.fmt = Str(none) /\ last.level = 1
    /\ last.out = <<>>
    /\ Counter(counters, 1) = 1 /\ Counter(counters, 2) = 1

\* C5: the k-th consecutive get_number call at one level with a named format
\* returns the rendering of k in that scheme (Chinese numerals, Arabic digits,
\* Roman numerals, Latin letters, circled digits), and Arabic digits above the
\* limit of the scheme's table, "(k)" for circle.
C5_LabelOfKthCall ==
    last.op = "get" =>
        /\ last.exc = ""
        /\ last.out = ExpectedLabel(last.fmt.chars, streak[last.level])

\* C5 witness: the 27th consecutive "letter" call has returned "27.".
C5_Witness ==
    /\ last.op = "get" /\ last.fmt = Str(letter)
    /\ streak[last.level] = 27
    /\ last.out = <<"2", "7", ".">>

\* C6 as claimed: get_number with a free-form template never raises; it
\* substitutes {n} and {cn}, and returns the Arabic count followed by ". " for
\* a template with an unknown field, an unbalanced brace, a positional field or
\* an attribute or index access on a field.
C6_TemplateNeverRaises ==
    (last.op = "get" /\ ~IsNoneFormat(last.fmt) /\ last.fmt.chars \notin NamedFormats) =>
        /\ last.exc = ""
        /\ (\A i \in 1..(Len(last.fmt.chars) - 1) :
                <<last.fmt.chars[i], last.fmt.chars[i + 1]>> \notin {<<"{", "{">>, <<"}", "}">>})
             => last.out = ExpectedLabel(last.fmt.chars, last.before + 1)

\* C7 as claimed: reset() clears every counter; reset(L) sets every counter at
\* a level >= L to zero and leaves the counters at the levels < L unchanged; the
\* next get_number with a numbering format at a reset level returns the label
\* for 1.
C7_ResetRestartsLevels ==
    [][ /\ last'.op = "reset" =>
              \A l \in Levels :
                  IF last'.noLevel \/ l >= last'.level
                  THEN Counter(counters', l) = 0
                  ELSE Counter(counters', l) = Counter(counters, l)
        /\ (last.op = "reset" /\ last'.op = "get" /\ ~IsNoneFormat(last'.fmt)
              /\ (last.noLevel \/ last'.level >= last.level))
             => (last'.exc = "" /\ last'.out = ExpectedLabel(last'.fmt.chars, 1)) ]_numVars

\* The conversion in flight has built its document tree and not raised since.
TreeBuilt == pc \in {"styles", "toc", "persist", "returned"}

\* C1 as claimed: when convert() ends by raising, the output path holds no
\* partially written file: it is as it was before the call or it holds a
\* complete document.
C1_NoPartialFile ==
    pc = "raised" => (output = call.before \/ output = "document")

\* What becomes of an image reference on its own: it stays embedded when it
\* is fine, and its alt text (empty if it has none) stands in its place when it
\* cannot be fetched, decoded or recognized.
OutcomeAlone(img) ==
    IF img.health = "ok" THEN [tag |-> TRUE, text |-> <<>>]
    ELSE [tag |-> FALSE, text |-> img.alt]

\* C2 as claimed: every image reference that cannot be fetched, decoded or
\* recognized is replaced by its alt text, no image makes the conversion raise,
\* and what becomes of a reference does not depend on the other references.
C2_FailedImageBecomesAltText ==
    /\ raised # "UnrecognizedImageError"
    /\ TreeBuilt =>
         \A i \in DOMAIN images :
             [tag |-> images[i].tag, text |-> images[i].text] = OutcomeAlone(images[i])

\* The numbered headings of an outline under a configuration.
IsNumbered(outline, config, i) == ~IsNoneFormat(config[outline[i]])

\* The label heading i of the outline has in a conversion run alone: its rank
\* among the numbered headings of its level since the last numbered heading of
\* a shallower level, in the format of its level.
LabelAlone(outline, config, i) ==
    IF ~IsNumbered(outline, config, i) THEN <<>>
    ELSE LET rank == Cardinality({j \in 1..i :
                         /\ outline[j] = outline[i]
                         /\ ~\E m \in (j + 1)..(i - 1) :
                                outline[m] < outline[i] /\ IsNumbered(outline, config, m)})
         IN  ExpectedLabel(config[outline[i]].chars, rank)

\* C8: in a process that runs conversions one after the other, the heading
\* labels of every conversion are those it has when run alone: the first
\* numbered heading of each level is labelled 1, and an input that was also the
\* input of the conversion before gets the same labels again.
C8_LabelsAsIfAlone ==
    pc \in {"toc", "persist", "returned"} =>
        LET labels == Labels(document)
            outline == call.outline
        IN  /\ labels = [i \in 1..Len(outline) |-> LabelAlone(outline, call.config, i)]
            /\ \A i \in 1..Len(outline) :
                   (/\ IsNumbered(outline, call.config, i)
                    /\ \A j \in 1..(i - 1) : outline[j] # outline[i])
                   => labels[i] = ExpectedLabel(call.config[outline[i]].chars, 1)
            /\ (previous.converted /\ previous.outline = outline
                  /\ previous.config = call.config)
               => labels = previous.labels

\* C8 witness: the same two level-1 headings were converted twice in a row
\* under DEFAULT_CONFIG, and the second conversion has labelled them.
C8_Witness ==
    /\ pc = "toc"
    /\ call.outline = <<1, 1>> /\ call.config = DEFAULT_CONFIG
    /\ previous.converted /\ previous.outline = <<1, 1>> /\ previous.config = DEFAULT_CONFIG
    /\ Labels(document) = <<ExpectedLabel(chapter, 1), ExpectedLabel(chapter, 2)>>

\* C9 as claimed: after the insertion of the table of contents the document
\* begins with the titled heading paragraph, then the TOC field paragraph, then
\* the page-break paragraph, then the original paragraphs in their order.
C9_TitleFieldBreak ==
    (pc = "persist" /\ call.toc /\ Len(call.outline) > 0) =>
        /\ Len(document) = Len(call.outline) + 3
        /\ document[1].kind = "toc_title"
        /\ document[2].kind = "toc_field"
        /\ document[3].kind = "page_break"
        /\ \A i \in 1..Len(call.outline) :
               IsHeading(document[i + 3]) /\ document[i + 3].level = call.outline[i]

\* C10 as claimed: the deepest heading level written into the TOC field
\* instruction is within 1..9, whichever entry point the depth was given to.
C10_TocLevelInRange ==
    \A i \in DOMAIN document :
        document[i].kind = "toc_field" => document[i].max_level \in 1..MaxTocLevel

\* Position i of t is the first of a line.
LineStart(t, i) == i = 1 \/ t[i - 1] = "\n"

\* The fence pair wraps the whole text: the opening fence line comes first, the
\* closing fence stands last on a line of its own, and no line in between
\* begins with a fence.
Wrapped(t) ==
    /\ StandsAt(t, 1, MarkdownFence \o <<"\n">>)
    /\ Len(t) >= Len(MarkdownFence) + 1 + Len(Fence)
    /\ StandsAt(t, Len(t) - 2, Fence) /\ LineStart(t, Len(t) - 2)
    /\ \A i \in (Len(MarkdownFence) + 2)..(Len(t) - 3) :
           ~(LineStart(t, i) /\ StandsAt(t, i, Fence))

\* C11 as claimed: convert_file strips the opening fence line and the closing
\* fence only when the pair wraps the entire file content, removing exactly the
\* two and nothing else; in every other case the text handed to convert is the
\* file content.
C11_StripsOnlyWholeWrapper ==
    HasReturned("convert_file") =>
        value.val = IF Wrapped(argument.arg)
                    THEN Slice(argument.arg, Len(MarkdownFence) + 2,
                               Len(argument.arg) - Len(Fence))
                    ELSE argument.arg

\* C12 as claimed: the text of the paragraph produced for a code block equals
\* the block's source text character for character, apart from the trimmed
\* leading and trailing whitespace, also when the source holds & < > " ' or the
\* literal text of an entity.
C12_CodeTextVerbatim ==
    HasReturned("extract_code_blocks") => value.val = strip(argument.arg)

\* The characters of the runs that are not markers of inline code, each with
\* the emphasis of its run.
Characters(runs) ==
    LET flagged(run) == [k \in 1..Len(run.text) |->
                            [ch |-> run.text[k], bold |-> run.bold, italic |-> run.italic]]
        all == Concat([r \in 1..Len(runs) |-> flagged(runs[r])])
    IN  SelectSeq(all, LAMBDA c : c.ch \notin {CodeOpen, CodeClose})

\* The document tree is the one that is saved.
Saved == argument.fn = "convert" /\ value.at = "images"

\* C13 as claimed: every run that is bold or italic after the generic
\* conversion, in a paragraph of the body or in a cell of a table, is still
\* bold or italic in the saved document, whatever the flags of the style of its
\* role and whether or not its paragraph holds inline code.
C13_EmphasisKept ==
    Saved =>
        /\ \A p \in 1..Len(argument.arg.document.paragraphs) :
              LET before == Characters(argument.arg.document.paragraphs[p].runs)
                  after == Characters(value.val.paragraphs[p].runs)
              IN  \A k \in 1..Len(before) :
                     /\ before[k].bold => (k <= Len(after) /\ after[k].bold)
                     /\ before[k].italic => (k <= Len(after) /\ after[k].italic)
        /\ \A t \in 1..Len(argument.arg.document.tables) :
              \A r \in 1..Len(argument.arg.document.tables[t].rows) :
                 LET before == argument.arg.document.tables[t].rows[r].run
                     after == value.val.tables[t].rows[r].run
                 IN  (before.bold => after.bold) /\ (before.italic => after.italic)

\* C14 as claimed: every block quote is, in the saved document, a single
\* paragraph whose one run holds the text of the quote in the font name, size,
\* italic flag and colour of the blockquote style, with a left border; no later
\* stage has put the values of another role in their place.
C14_QuoteKeepsItsStyle ==
    Saved =>
        \A p \in 1..Len(argument.arg.document.paragraphs) :
           \A idx \in 0..(Len(argument.arg.blockquotes) - 1) :
              ParagraphText(argument.arg.document.paragraphs[p]) = BlockquotePlaceholder(idx)
              => LET quote == value.val.paragraphs[p]
                     style_config == argument.arg.config.styles.blockquote
                 IN  /\ Len(quote.runs) = 1
                     /\ quote.runs[1].text = argument.arg.blockquotes[idx + 1]
                     /\ quote.runs[1].font_name = style_config.font_name
                     /\ quote.runs[1].font_size = style_config.font_size
                     /\ quote.runs[1].italic = style_config.italic
                     /\ quote.runs[1].color = style_config.color
                     /\ quote.border # ""

\* C15: in every table of the saved document the cells of row 0 have the
\* table_header style and the header fill when one is configured; the cells of
\* a row i >= 1 have the table_cell style and at most one fill: the alternating
\* colour when it is configured and i is even, otherwise the flat cell fill
\* when it is configured, otherwise none.
C15_RowStylesAndFills ==
    Saved =>
        \A t \in 1..Len(value.val.tables) :
           \A r \in 1..Len(value.val.tables[t].rows) :
              LET i == r - 1
                  table_config == argument.arg.config.table
                  styles == argument.arg.config.styles
                  built == argument.arg.document.tables[t].rows[r]
                  cell == value.val.tables[t].rows[r]
                  role == IF i = 0 THEN styles.table_header ELSE styles.table_cell
              IN  /\ cell.run.font_name = role.font_name
                  /\ cell.run.font_size = role.font_size
                  /\ cell.run.color = role.color
                  /\ cell.run.bold = (built.run.bold \/ role.bold)
                  /\ cell.run.italic = (built.run.italic \/ role.italic)
                  /\ Len(cell.fills) <= 1
                  /\ i = 0 =>
                        cell.fills = IF table_config.header_background_color # ""
                                     THEN <<table_config.header_background_color>>
                                     ELSE <<>>
                  /\ i >= 1 =>
                        cell.fills =
                            IF table_config.alternating_row_color # "" /\ i % 2 = 0
                            THEN <<table_config.alternating_row_color>>
                            ELSE IF table_config.cell_background_color # ""
                                 THEN <<table_config.cell_background_color>>
                                 ELSE <<>>

\* A saved table of a header and two more rows, all three fills configured:
\* the second row has the flat fill and the third the alternating colour.
C15_Witness ==
    /\ Saved
    /\ Len(value.val.tables) = 1
    /\ Len(value.val.tables[1].rows) = 3
    /\ argument.arg.config.table.header_background_color # ""
    /\ argument.arg.config.table.cell_background_color # ""
    /\ argument.arg.config.table.alternating_row_color # ""
    /\ argument.arg.config.styles.table_header # argument.arg.config.styles.table_cell
    /\ value.val.tables[1].rows[1].fills = <<argument.arg.config.table.header_background_color>>
    /\ value.val.tables[1].rows[2].fills = <<argument.arg.config.table.cell_background_color>>
    /\ value.val.tables[1].rows[3].fills = <<argument.arg.config.table.alternating_row_color>>

\* C16 as claimed: a saved table carries exactly one width setting: 100% of the
\* page (5000 fiftieths of a percent) when width_mode is "full", width_inches
\* in twentieths of a point when it is "fixed" with a width, and the setting of
\* the generic conversion otherwise.
C16_OneWidthSetting ==
    Saved =>
        \A t \in 1..Len(value.val.tables) :
           LET table_config == argument.arg.config.table
               built == argument.arg.document.tables[t].widths
               widths == value.val.tables[t].widths
           IN  /\ Len(widths) = 1
               /\ widths = IF table_config.width_mode = "full"
                           THEN <<[w |-> 5000, type |-> "pct"]>>
                           ELSE IF table_config.width_mode = "fixed"
                                   /\ table_config.width_inches # 0
                                THEN <<[w |-> table_config.width_inches * 1440,
                                        type |-> "dxa"]>>
                                ELSE built

\* C17: in the saved document no picture is wider than the configured maximum;
\* a picture that was wider has the maximum as its width and, to the unit of
\* length, old height * (maximum / old width) as its height; a picture that
\* was not wider has the width and height it had.
C17_PicturesFit ==
    Saved =>
        \A k \in 1..Len(value.val.pictures) :
           LET max_width == argument.arg.config.max_image_width_inches
               old == argument.arg.document.pictures[k]
               new == value.val.pictures[k]
           IN  /\ new.width <= max_width
               /\ old.width > max_width =>
                     /\ new.width = max_width
                     /\ new.height * old.width <= old.height * max_width
                     /\ old.height * max_width < (new.height + 1) * old.width
               /\ old.width <= max_width => new = old

\* Two pictures are saved, the first too wide and scaled down, the second
\* narrow enough and untouched.
C17_Witness ==
    /\ Saved
    /\ Len(value.val.pictures) = 2
    /\ argument.arg.document.pictures[1].width > argument.arg.config.max_image_width_inches
    /\ value.val.pictures[1].height < argument.arg.document.pictures[1].height
    /\ argument.arg.document.pictures[2].width < argument.arg.config.max_image_width_inches
    /\ value.val.pictures[2] = argument.arg.document.pictures[2]

\* C18 as claimed: parse_font_size never raises; it maps each of the sixteen
\* named sizes to its point value, a number to that number, a text that writes
\* a number to that number, and every other value to 10.5.
C18_FontSizeParsed ==
    HasReturned("parse_font_size") =>
        /\ value.val.exc = ""
        /\ value.val.out =
             IF argument.arg.type \in {"int", "float"} THEN argument.arg.num
             ELSE IF argument.arg.type = "str"
                     /\ strip(argument.arg.text) \in DOMAIN CHINESE_FONT_SIZE_MAP
                  THEN CHINESE_FONT_SIZE_MAP[strip(argument.arg.text)]
                  ELSE IF argument.arg.type = "str" /\ float(argument.arg).exc = ""
                       THEN float(argument.arg).out
                       ELSE Num(105, -1)

\* Two values are equal as Python values: numbers when they are the same
\* number, whether int or float.
SameValue(a, b) ==
    \/ a = b
    \/ a.type \in {"int", "float"} /\ b.type \in {"int", "float"} /\ a.num = b.num

\* Two objects are equal field for field; numbers are the fields holding
\* a number or None.
SameFields(a, b, numbers) ==
    /\ DOMAIN a = DOMAIN b
    /\ \A field \in DOMAIN a :
          IF field \in numbers THEN SameValue(a[field], b[field]) ELSE a[field] = b[field]

\* Two Config objects are equal.
SameConfig(a, b) ==
    /\ SameFields([field \in DOMAIN a \ {"styles", "table"} |-> a[field]],
                  [field \in DOMAIN b \ {"styles", "table"} |-> b[field]],
                  {"page_width_inches", "page_height_inches", "max_image_width_inches",
                   "image_download_timeout"})
    /\ DOMAIN a.styles = DOMAIN b.styles
    /\ \A name \in DOMAIN a.styles :
          SameFields(a.styles[name], b.styles[name],
                     {"font_size", "space_before", "space_after", "line_spacing",
                      "left_indent", "background_color", "line_spacing_value",
                      "first_line_indent", "numbering_format"})
    /\ SameFields(a.table, b.table,
                  DOMAIN a.table \ {"border_style", "border_color", "width_mode"})

\* C19 as claimed: StyleConfig.from_dict(s.to_dict()) equals s field for field
\* for every StyleConfig s, and Config.from_dict(c.to_dict()) equals c for
\* every Config c, also when the dictionary went through a file.
C19_RoundTrip ==
    /\ HasReturned("StyleConfig.from_dict") =>
          value.val.exc = ""
          /\ SameConfig([NewConfig EXCEPT !.styles = ("s" :> value.val.out)],
                        [NewConfig EXCEPT !.styles = ("s" :> argument.arg)])
    /\ (HasReturned("Config.from_dict") \/ HasReturned("Config.from_file")) =>
          value.val.exc = "" /\ SameConfig(value.val.out, argument.arg)

RECURSIVE Restored(_, _)
\* The text with the placeholders of the records replaced by their formulas
\* between their delimiters, the last record first.
Restored(text, formulas) ==
    IF formulas = <<>> THEN text
    ELSE LET formula == formulas[Len(formulas)]
             delimiter == IF formula.is_block THEN <<"$", "$">> ELSE <<"$">>
         IN  Restored(Replace(text, formula.placeholder,
                              delimiter \o formula.latex \o delimiter),
                      SubSeq(formulas, 1, Len(formulas) - 1))

\* C20: extract_latex_formulas replaces every $$...$$ span and every remaining
\* $...$ span with a distinct placeholder and returns one record per span in
\* the order of insertion (the block formulas, then the inline ones), each
\* with the LaTeX between its delimiters and its kind, so that putting the
\* formulas back gives the text; no span is left, and a text without
\* formulas comes back unchanged with no record.
C20_FormulasExtracted ==
    HasReturned("extract_latex_formulas") =>
        LET text == argument.arg
            result == value.val.text
            formulas == value.val.formulas
        IN  /\ \A i, j \in 1..Len(formulas) :
                  i # j => formulas[i].placeholder # formulas[j].placeholder
            /\ Restored(result, formulas) = text
            /\ \A i, j \in 1..Len(formulas) :
                  i < j /\ formulas[j].is_block => formulas[i].is_block
            /\ \A i \in 1..Len(formulas) : formulas[i].latex # <<>>
            /\ SpanStarts(result, <<"$", "$">>) = {}
            /\ SpanStarts(result, <<"$">>) = {}
            /\ SpanStarts(text, <<"$", "$">>) # {} =>
                  formulas # <<>> /\ formulas[1].is_block
            /\ SpanStarts(text, <<"$">>) = {} => result = text /\ formulas = <<>>

\* Two inline formulas and a block formula were extracted from one text.
C20_Witness ==
    /\ HasReturned("extract_latex_formulas")
    /\ Len(value.val.formulas) = 3
    /\ value.val.formulas[1].is_block
    /\ ~value.val.formulas[2].is_block
    /\ value.val.formulas[1].latex = <<"b">>
    /\ value.val.formulas[3].latex = <<"a">>

\* The place of a stage in the order the specification gives.
StageIndex(stage) ==
    CHOOSE i \in 1..15 :
        <<"ExtractFormulas", "ResolveMarkdownImages", "GenericConvert",
          "SanitizeHtmlImages", "ExtractCode", "ExtractQuotes", "BuildDocumentTree",
          "ReinjectCode", "ReinjectQuotes", "ReinjectFormulas", "ApplyStyles",
          "StyleInlineCode", "ResizeImages", "InsertTOC", "Persist">>[i] = stage

\* C21: in every run of convert the stages that have run so far ran in the
\* order ExtractFormulas, ..., Persist; only BuildDocumentTree ran more than
\* once; no stage was left out but a reinjection with nothing to reinject,
\* StyleInlineCode with no inline code and the optional InsertTOC; and when
\* convert returns Persist was the last stage.
C21_StagesInOrder ==
    (argument.fn = "convert" /\ value.at \in {"running", "returned", "raised"}) =>
        LET trace == value.val.trace
            optional == {"ReinjectCode", "ReinjectQuotes", "ReinjectFormulas",
                         "StyleInlineCode", "InsertTOC"}
        IN  /\ \A i, j \in 1..Len(trace) :
                  i < j => \/ StageIndex(trace[i]) < StageIndex(trace[j])
                           \/ trace[i] = "BuildDocumentTree" /\ trace[j] = "BuildDocumentTree"
            /\ \A j \in 1..Len(trace) : \A k \in 1..(StageIndex(trace[j]) - 1) :
                  \/ \E i \in 1..(j - 1) : StageIndex(trace[i]) = k
                  \/ \E stage \in optional : StageIndex(stage) = k
            /\ value.at = "returned" => trace[Len(trace)] = "Persist"
            /\ \A i \in 1..Len(trace) : trace[i] = "Persist" => i = Len(trace)

\* A conversion has returned after every one of the fifteen stages, the build
\* of the tree three times.
C21_Witness ==
    /\ argument.fn = "convert"
    /\ value.at = "returned"
    /\ Len(value.val.trace) = 17
    /\ value.val.attempts = 3

\* C22: the tree is built at most three times in one conversion; the first
\* attempt runs on the HTML as extracted, the second on that HTML without the
\* images python-docx does not recognize, the third on HTML without any image
\* element; an attempt is made only after the one before raised
\* UnrecognizedImageError; a document that was built holds what one attempt
\* on an empty document puts there; and a failure of the third attempt ends
\* the conversion.
C22_AtMostTwoRetries ==
    (argument.fn = "convert" /\ value.at \in {"running", "raised", "returned"}) =>
        LET v == value.val
            given == argument.arg.images
            builds == {i \in 1..Len(v.trace) : v.trace[i] = "BuildDocumentTree"}
        IN  /\ v.attempts = Cardinality(builds)
            /\ v.attempts <= 3
            /\ (v.attempts >= 1 /\ "ReinjectCode" \notin {v.trace[i] : i \in 1..Len(v.trace)}) =>
                  /\ Len(v.html) = Len(given)
                  /\ \A i \in 1..Len(given) :
                        CASE v.attempts = 1 -> v.html[i] = given[i]
                          [] v.attempts = 2 ->
                                IF given[i].health = "unrecognized"
                                THEN ~v.html[i].tag /\ v.html[i].text = given[i].alt
                                ELSE v.html[i] = given[i]
                          [] OTHER -> ~v.html[i].tag
            /\ v.attempts >= 2 => \E i \in 1..Len(given) : given[i].health # "ok"
            /\ (v.attempts = 3 /\ v.exc # "") => value.at = "raised"
            /\ (v.attempts >= 1 /\ v.exc = "" /\ v.trace[Len(v.trace)] = "BuildDocumentTree") =>
                  /\ Len(v.document) = Len(argument.arg.outline) + Len(given)
                  /\ \A i \in 1..Len(argument.arg.outline) : v.document[i].kind = "heading"
                  /\ \A i \in 1..Len(given) :
                        v.document[Len(argument.arg.outline) + i].kind =
                            IF v.html[i].tag THEN "picture" ELSE "body"

\* The third attempt built the document of a conversion with a heading, after
\* two attempts that raised.
C22_Witness ==
    /\ argument.fn = "convert"
    /\ value.at = "running"
    /\ value.val.attempts = 3
    /\ value.val.exc = ""
    /\ value.val.trace[Len(value.val.trace)] = "BuildDocumentTree"
    /\ Len(argument.arg.outline) > 0

\* The conversion of HTML has saved its document.
Persisted == argument.fn = "convert_html" /\ value.at = "persisted"

\* The tokens of a text.
Tokens(text) == {text[i] : i \in 1..Len(text)}

\* The paragraph of the body that block k of the input becomes: every block
\* outside a table becomes one paragraph.
BodyParagraph(k) ==
    value.val.document.paragraphs[
        Cardinality({j \in 1..k : argument.arg.blocks[j][1] # "<td>"})]

\* C23 as claimed: a paragraph of the user's own text (no code element in it)
\* is never treated as a placeholder: in the saved document it has its text,
\* in one run, with no shading of a code block, no border of a block quote
\* and no marker taken out, also when the text spells a placeholder of a code
\* block or a block quote or a marker pair.
C23_OnlyGeneratedPlaceholders ==
    Persisted =>
        \A k \in 1..Len(argument.arg.blocks) :
            LET block == argument.arg.blocks[k]
            IN  (block[1] = "<p>" /\ "<code>" \notin Tokens(block)) =>
                    /\ ParagraphText(BodyParagraph(k)) = SubSeq(block, 2, Len(block) - 1)
                    /\ Len(BodyParagraph(k).runs) = 1
                    /\ "shd" \notin DOMAIN BodyParagraph(k)
                    /\ BodyParagraph(k).border = ""

\* The paragraphs of the saved document, those of table cells included.
SavedParagraphs == value.val.document.paragraphs \o value.val.document.cells

\* text holds the tokens of part, one after the other.
Holds(text, part) ==
    \E i \in 1..(Len(text) - Len(part) + 1) : SubSeq(text, i, i + Len(part) - 1) = part

\* C24 as claimed: every code block and every block quote kept by the
\* extraction is put back exactly once (as many code paragraphs as code
\* blocks, as many quote paragraphs as block quotes, each record's text in one
\* of them), and no placeholder of a record is left in the text of a paragraph
\* of the saved document, wherever the construct stood.
C24_RecordsConsumedOnce ==
    Persisted =>
        LET code_blocks == value.val.code_blocks
            blockquotes == value.val.blockquotes
            code_paragraphs == {k \in 1..Len(SavedParagraphs) :
                                   "shd" \in DOMAIN SavedParagraphs[k]}
            quote_paragraphs == {k \in 1..Len(SavedParagraphs) :
                                    SavedParagraphs[k].border # ""}
        IN  /\ Cardinality(code_paragraphs) = Len(code_blocks)
            /\ Cardinality(quote_paragraphs) = Len(blockquotes)
            /\ \A n \in 1..Len(code_blocks) :
                  /\ \E k \in code_paragraphs :
                        ParagraphText(SavedParagraphs[k]) = code_blocks[n].code
                  /\ \A k \in 1..Len(SavedParagraphs) :
                        ~Holds(ParagraphText(SavedParagraphs[k]), code_blocks[n].placeholder)
            /\ \A n \in 1..Len(blockquotes) :
                  /\ \E k \in quote_paragraphs :
                        Holds(ParagraphText(SavedParagraphs[k]),
                              SelectSeq(blockquotes[n],
                                        LAMBDA t : t \notin {CodeOpen, CodeClose}))
                  /\ \A k \in 1..Len(SavedParagraphs) :
                        ~Holds(ParagraphText(SavedParagraphs[k]),
                               BlockquotePlaceholder(n - 1))

\* C28 as claimed: the HTML handed to the builder holds no <pre> block and no
\* opening or closing <blockquote> tag, and the placeholders of the records
\* are pairwise distinct, one for each code block and each block quote.
C28_NoBlockLeftInHtml ==
    (argument.fn = "convert_html" /\ value.at = "extracted") =>
        LET placeholders ==
                [n \in 1..Len(value.val.code_blocks) |-> value.val.code_blocks[n].placeholder]
                \o [n \in 1..Len(value.val.blockquotes) |-> BlockquotePlaceholder(n - 1)]
        IN  /\ Tokens(value.val.html)
                 \cap {"<pre>", "</pre>", "<blockquote>", "</blockquote>"} = {}
            /\ \A i, j \in 1..Len(placeholders) :
                  i # j => placeholders[i] # placeholders[j]
            /\ Len(placeholders) =
                  Len(value.val.code_blocks) + Len(value.val.blockquotes)

\* C30 as claimed: for every inline code span of the input the saved document
\* has a run with exactly the code text, in the code font and shaded, and a
\* paragraph with inline code reads as its text without the marker pairs.
C30_InlineCodeVerbatim ==
    Persisted =>
        \A k \in 1..Len(argument.arg.blocks) : \A code \in InlineCodes :
            argument.arg.blocks[k] \in {P(WithCode(code)), Cell(P(WithCode(code)))} =>
                \E p \in 1..Len(SavedParagraphs) :
                    /\ ParagraphText(SavedParagraphs[p]) = <<"a">> \o code
                    /\ \E r \in 1..Len(SavedParagraphs[p].runs) :
                          LET run == SavedParagraphs[p].runs[r]
                          IN  /\ run.text = code
                              /\ run.font_name = argument.arg.config.styles.code.font_name
                              /\ run.shd # ""

\* C25 as claimed: ApplyStyles leaves the paragraph of a code block that was
\* put back as it is (runs with their font and size, format, shading), for
\* every background colour of the code style, and the code block takes no
\* heading number: the headings around it are numbered as if it was not there.
C25_CodeParagraphUntouched ==
    (argument.fn = "style_code" /\ value.at = "styled") =>
        LET at == Len(argument.arg.before) + 1
            outline == argument.arg.before \o argument.arg.after
            headings == [i \in 1..Len(outline) |-> Paragraph("heading", outline[i], <<>>, 0)]
            alone == apply_styles_to_document(NewCounters, headings, DEFAULT_CONFIG)
        IN  /\ value.val.paragraphs[at] = value.val.reinjected[at]
            /\ value.val.counters = alone.counters
            /\ \A i \in 1..Len(outline) :
                  value.val.paragraphs[IF i < at THEN i ELSE i + 1].text
                      = alone.paragraphs[i].text

\* The image has an alpha channel.
HasAlpha(image) == image.mode \in {"RGBA", "LA"}

\* C26 as claimed: process_image_content writes a file for every image: the
\* input bytes when the format is PNG or JPEG; else a PNG exactly when the
\* image has an alpha channel or transparency, a JPEG otherwise; and an image
\* with an alpha channel written as JPEG is pasted on white first.
C26_StoredFormat ==
    HasReturned("process_image_content") =>
        LET image == argument.arg
            file == value.val
        IN  /\ file.exc = ""
            /\ image.format \in {"png", "jpeg"} =>
                  file.format = image.format /\ file.pixels = "unchanged"
            /\ image.format \notin {"png", "jpeg"} =>
                  /\ file.format = IF HasAlpha(image) \/ image.transparency
                                   THEN "png" ELSE "jpeg"
                  /\ file.pixels # "unchanged"
            /\ (HasAlpha(image) /\ file.format = "jpeg") => file.pixels = "on_white"

\* C27 as claimed: when the references of a conversion are resolved, every
\* remote reference that was resolved has a local file of its own: the file
\* it points at holds what was downloaded for it, whatever the other
\* references are called, and no later download has overwritten it.
C27_OwnLocalFile ==
    pc = "build" =>
        \A i \in DOMAIN images :
            (images[i].tag /\ images[i].file \in FileNames) =>
                Content(images[i], files) = images[i].health

\* The paragraphs of the content: all but the three of the table of contents.
ContentOf(paras) ==
    SelectSeq(paras, LAMBDA p : p.kind \notin {"toc_title", "toc_field", "page_break"})

\* C29: the step that inserts the table of contents leaves the content as it
\* was assembled: the content paragraphs after it are the paragraphs before
\* it, labels, text and styling included, with or without a table of
\* contents; the numbering counters are not touched and the title of the table
\* has no label; a document without a paragraph gets nothing and the
\* conversion goes on to the save.
C29_TocLeavesContent ==
    [][pc = "toc" /\ pc' # "toc" =>
          /\ pc' = "persist"
          /\ ContentOf(document') = document
          /\ counters' = counters
          /\ \A i \in DOMAIN document' :
                document'[i].kind = "toc_title" => document'[i].text = <<>>
          /\ ~call.toc => document' = document
          /\ document = <<>> => document' = <<>>]_vars

\* A numbered document of two headings and an image with its table of
\* contents, ready to be saved.
C29_Witness ==
    /\ pc = "persist"
    /\ call.toc
    /\ call.config = DEFAULT_CONFIG
    /\ Len(call.outline) = 2
    /\ Len(document) = 6
    /\ \E i \in DOMAIN document : document[i].kind = "toc_title"
    /\ \E i \in DOMAIN document : IsHeading(document[i]) /\ document[i].text # <<>>

============================================================================
